---- MODULE Spec2Model ----
(***************************************************************************)
(* Model of yuuhitsu's document-safe translation pipeline                  *)
(* (src/src/tasks/translate.ts): separateFrontmatter, protectCodeBlocks,   *)
(* restoreCodeBlocks, splitIntoChunks and the translateFile orchestrator.  *)
(*                                                                         *)
(* A text is a sequence of characters, each character a one-element        *)
(* string.  A placeholder token (__CODE_BLOCK_n__, __INLINE_CODE_n__) is   *)
(* kept as one element of the sequence: it is made of letters, digits and  *)
(* underscores only, so no pattern of the code can match inside it, and    *)
(* the input texts enumerated here never contain one literally.            *)
(***************************************************************************)
EXTENDS Naturals, Integers, Sequences, FiniteSets, TLC

VARIABLES
    \* separateFrontmatter alone: its argument and what it returned
    raw, separation,
    \* protectCodeBlocks and restoreCodeBlocks alone: the text, what protect
    \* returned, what restore returned on it
    text, protection, restored,
    \* splitIntoChunks alone: its argument and what it returned
    body, chunkList,
    \* translateFile: the file system, the locals of the call, the calls made
    \* on the provider and how the call ended
    inputFile, outputFile, madeDir, pc, frontmatter, protectedBody, codeMap,
    chunks, translatedParts, totalUsage, requests, replies, rejections, outcome,
    \* the glossary commands: the glossary file, the document checked, the
    \* language asked for, and how checkGlossary, syncGlossary and
    \* initGlossary ended
    glossaryFile, docFile, docShape, checkLang, checkOutcome, syncOutcome,
    initForce, initOutcome,
    \* hasUncoveredOccurrence alone: its arguments and what it returned
    ovLine, ovWord, ovCanonical, ovResult,
    \* batchTranslate: its options with what the file system and the provider
    \* will do, its position, its locals, the files whose progress line it
    \* wrote, the calls of translateFile and of onProgress it made, and what
    \* it returned
    batchOpts, batchPc, batchIndex, batchProgress, batchErrors, batchAttempts,
    batchCalls, batchReports, batchResult,
    \* the output paths of a batch alone: the pattern, the files it matched,
    \* the output directory and the language, and the paths computed
    pathOpts, pathOutputs,
    \* the glossary in the prompt: the glossaryConfig and the targetLang
    \* given, and what buildGlossaryPrompt returned
    promptGlossary, promptLang, promptLines,
    \* how often syncGlossary has run on the glossary file
    syncRuns

fmVars == <<raw, separation>>
codeVars == <<text, protection, restored>>
chunkVars == <<body, chunkList>>
tfVars == <<inputFile, outputFile, madeDir, pc, frontmatter, protectedBody,
            codeMap, chunks, translatedParts, totalUsage, requests, replies,
            rejections, outcome>>
glVars == <<glossaryFile, docFile, docShape, checkLang, checkOutcome, syncOutcome,
            initForce, initOutcome>>
ovVars == <<ovLine, ovWord, ovCanonical, ovResult>>
batchVars == <<batchOpts, batchPc, batchIndex, batchProgress, batchErrors,
               batchAttempts, batchCalls, batchReports, batchResult>>
\* What translateFile and its parts never touch.
pathVars == <<pathOpts, pathOutputs>>
promptVars == <<promptGlossary, promptLang, promptLines>>
otherVars == <<pathVars, promptVars, syncRuns>>
moreVars == <<glVars, ovVars, batchVars, otherVars>>
vars == <<fmVars, codeVars, chunkVars, tfVars, moreVars>>

\* ------------------------------------------------------------------ bounds

\* Number of lines of the raw documents given to separateFrontmatter.
MaxFmLines == 4
\* Number of lines of the texts given to protectCodeBlocks.
MaxCodeLines == 3
\* Length, in characters, of the bodies given to splitIntoChunks.
MaxBodyLen == 7
\* The model's size bound of a chunk (the program's is 50 * 1024).
ScaledChunkSize == 4
\* Number of body lines of the input files given to translateFile.
MaxDocLines == 2

\* ------------------------------------------------------- characters, texts

NL == "\n"
CR == "\r"
\* The backtick, which a TLA+ string cannot hold.
BT == "bt"

\* JavaScript's String.prototype.trim() white space, as far as the model's
\* alphabet goes.
IsWhitespace(c) == c \in {" ", "\t", NL, CR}

\* [ \t] of the two patterns.
IsBlank(c) == c \in {" ", "\t"}

Min(S) == CHOOSE x \in S : \A y \in S : x <= y
Max(S) == CHOOSE x \in S : \A y \in S : x >= y

\* s.slice(from - 1, to): the characters from..to of s (1-based, inclusive).
Slice(s, from, to) == IF to < from THEN <<>> ELSE SubSeq(s, from, to)

\* Array.prototype.join(""): the concatenation of a sequence of texts.
RECURSIVE Join(_)
Join(parts) ==
    IF parts = <<>> THEN <<>>
    ELSE IF Len(parts) = 1 THEN parts[1]
    ELSE LET half == Len(parts) \div 2
         IN  Join(SubSeq(parts, 1, half)) \o Join(SubSeq(parts, half + 1, Len(parts)))

\* pat occurs in s at position i.
HasAt(s, i, pat) ==
    /\ i >= 1
    /\ i + Len(pat) - 1 <= Len(s)
    /\ \A k \in 1..Len(pat) : s[i + k - 1] = pat[k]

\* First position >= i of s that holds no blank (Len(s) + 1 when none does).
BlankRunEnd(s, i) ==
    LET stops == {j \in i..Len(s) : ~IsBlank(s[j])}
    IN  IF stops = {} THEN Len(s) + 1 ELSE Min(stops)

\* ( \n | $ ) after an optional run of blanks starting at i: the position of
\* the last character matched, 0 when neither a newline nor the end follows.
LineEndAfterBlanks(s, i) ==
    LET e == BlankRunEnd(s, i)
    IN  IF e = Len(s) + 1 THEN Len(s)
        ELSE IF s[e] = NL THEN e
        ELSE 0

\* String.prototype.split(pat).join(rep): every occurrence of pat, left to
\* right and not overlapping, replaced by rep.
RECURSIVE ReplaceFrom(_, _, _, _)
ReplaceFrom(s, i, pat, rep) ==
    LET hits == {j \in i..Len(s) : HasAt(s, j, pat)}
    IN  IF hits = {} THEN Slice(s, i, Len(s))
        ELSE Slice(s, i, Min(hits) - 1) \o rep
                 \o ReplaceFrom(s, Min(hits) + Len(pat), pat, rep)

ReplaceAll(s, pat, rep) == ReplaceFrom(s, 1, pat, rep)

\* String.prototype.split("\n"): the lines of s, a final empty one included.
RECURSIVE SplitLinesFrom(_, _)
SplitLinesFrom(s, i) ==
    LET nls == {j \in i..Len(s) : s[j] = NL}
    IN  IF nls = {} THEN <<Slice(s, i, Len(s))>>
        ELSE <<Slice(s, i, Min(nls) - 1)>> \o SplitLinesFrom(s, Min(nls) + 1)

SplitLines(s) == SplitLinesFrom(s, 1)

\* Mutant of TrimsToEmpty: the length is tested without trimming.
IsEmptyText(s) == s = <<>>

\* s.trim().length === 0
TrimsToEmpty(s) == \A i \in 1..Len(s) : IsWhitespace(s[i])

\* A value that may be null: <<>> is null, <<v>> holds v.
Null == <<>>
Some(v) == <<v>>

\* ------------------------------------------------------ separateFrontmatter

\* Mutant of NormalizeLineEndings: the text is matched as it came.
NormalizeNothing(content) == content

\* content.replace(/\r\n/g, "\n")
NormalizeLineEndings(content) == ReplaceAll(content, <<CR, NL>>, <<NL>>)

\* \n---[ \t]*(\n|$) with the \n at position k: the position of the last
\* character matched, 0 when the pattern does not match there.
ClosingAt(s, k) ==
    IF HasAt(s, k, <<NL, "-", "-", "-">>) THEN LineEndAfterBlanks(s, k + 4)
    ELSE 0

\* The length of match[0] of frontmatterRegex on the normalized text, 0 when
\* the pattern does not match.  The first alternative is tried first, its
\* lazy group growing from the empty text; the second only when the first
\* fails for every length of the group.
FrontmatterMatchLength(s) ==
    LET opens == HasAt(s, 1, <<"-", "-", "-", NL>>)
        lazy  == {k \in 5..Len(s) : ClosingAt(s, k) > 0}
    IN  IF ~opens THEN 0
        ELSE IF lazy # {} THEN ClosingAt(s, Min(lazy))
        ELSE IF HasAt(s, 5, <<"-", "-", "-">>) THEN LineEndAfterBlanks(s, 8)
        ELSE 0

separateFrontmatter(content) ==
    LET normalized    == NormalizeLineEndings(content)
        matchedLength == FrontmatterMatchLength(normalized)
    IN  IF matchedLength > 0
        THEN [frontmatter |-> Some(Slice(normalized, 1, matchedLength)),
              body        |-> Slice(normalized, matchedLength + 1, Len(normalized))]
        ELSE [frontmatter |-> Null, body |-> normalized]

\* ---------------------------------------------------------- protectCodeBlocks

\* The placeholder tokens, each one element of a text.
BlockPlaceholder(n) == "__CODE_BLOCK_" \o ToString(n) \o "__"
InlinePlaceholder(n) == "__INLINE_CODE_" \o ToString(n) \o "__"

\* Number of consecutive backticks of s from position p on.
BacktickRun(s, p) ==
    LET stops == {j \in p..Len(s) : s[j] # BT}
    IN  IF stops = {} THEN Len(s) + 1 - p ELSE Min(stops) - p

\* \1[ \t]*(\n|$) at position j, group 1 being g backticks: the position of the
\* last character matched, 0 when the pattern does not match there.
FenceCloseAt(s, j, g) ==
    IF j + g - 1 <= Len(s) /\ (\A k \in j..(j + g - 1) : s[k] = BT)
    THEN LineEndAfterBlanks(s, j + g)
    ELSE 0

\* The fenced-block pattern at position p with group 1 of g backticks:
\* [^\n]* runs to the first newline, the lazy [\s\S]*? stops at the first
\* position where the closing matches.  The position of the last character
\* matched, 0 when there is no match.
FencedMatchWith(s, p, g) ==
    LET nls == {q \in (p + g)..Len(s) : s[q] = NL}
    IN  IF nls = {} THEN 0
        ELSE LET closes == {j \in (Min(nls) + 1)..Len(s) : FenceCloseAt(s, j, g) > 0}
             IN  IF closes = {} THEN 0 ELSE FenceCloseAt(s, Min(closes), g)

\* Mutant of FencedMatchAt: group 1 takes three backticks and no more.
FencedMatchAtThree(s, p) ==
    IF s[p] # BT THEN 0
    ELSE IF BacktickRun(s, p) >= 3 THEN FencedMatchWith(s, p, 3)
    ELSE 0

\* /(bt{3,})[^\n]*\n[\s\S]*?\1[ \t]*(\n|$)/ at position p: the greedy group 1
\* takes the whole run of backticks and gives them back one at a time, down to
\* three.  The position of the last character matched, 0 when no match.
FencedMatchAt(s, p) ==
    IF s[p] # BT THEN 0
    ELSE LET gs == {g \in 3..BacktickRun(s, p) : FencedMatchWith(s, p, g) > 0}
         IN  IF gs = {} THEN 0 ELSE FencedMatchWith(s, p, Max(gs))

\* /bt([^bt\n]+)bt/ at position p: the position of the closing backtick, 0
\* when no match.
InlineMatchAt(s, p) ==
    IF p > Len(s) \/ s[p] # BT THEN 0
    ELSE LET stops == {j \in (p + 1)..Len(s) : s[j] \in {BT, NL}}
         IN  IF stops = {} THEN 0
             ELSE IF Min(stops) > p + 1 /\ s[Min(stops)] = BT THEN Min(stops)
             ELSE 0

\* Step 1, content.replace(fenced, ...) from position p on, blockIndex being
\* n: [text, map], the map a sequence of <<placeholder, original>> pairs in
\* the order of insertion.
RECURSIVE ReplaceFenced(_, _, _)
ReplaceFenced(s, p, n) ==
    LET starts == {q \in p..Len(s) : FencedMatchAt(s, q) > 0}
    IN  IF starts = {} THEN [text |-> Slice(s, p, Len(s)), map |-> <<>>]
        ELSE LET q    == Min(starts)
                 e    == FencedMatchAt(s, q)
                 rest == ReplaceFenced(s, e + 1, n + 1)
             IN  [text |-> Slice(s, p, q - 1) \o <<BlockPlaceholder(n), NL>> \o rest.text,
                  map  |-> <<<<BlockPlaceholder(n), Slice(s, q, e)>>>> \o rest.map]

\* Step 2, result.replace(inline, ...) from position p on, inlineIndex being n.
RECURSIVE ReplaceInline(_, _, _)
ReplaceInline(s, p, n) ==
    LET starts == {q \in p..Len(s) : InlineMatchAt(s, q) > 0}
    IN  IF starts = {} THEN [text |-> Slice(s, p, Len(s)), map |-> <<>>]
        ELSE LET q    == Min(starts)
                 e    == InlineMatchAt(s, q)
                 rest == ReplaceInline(s, e + 1, n + 1)
             IN  [text |-> Slice(s, p, q - 1) \o <<InlinePlaceholder(n)>> \o rest.text,
                  map  |-> <<<<InlinePlaceholder(n), Slice(s, q, e)>>>> \o rest.map]

\* Mutant of protectCodeBlocks: step 2 is left out.
ProtectFencedOnly(content) ==
    LET blocks == ReplaceFenced(content, 1, 0)
    IN  [text |-> blocks.text, map |-> blocks.map]

protectCodeBlocks(content) ==
    LET blocks  == ReplaceFenced(content, 1, 0)
        inlines == ReplaceInline(blocks.text, 1, 0)
    IN  [text |-> inlines.text, map |-> blocks.map \o inlines.map]

\* ---------------------------------------------------------- restoreCodeBlocks

\* The loop over map.entries() from entry i on.
RECURSIVE RestoreFrom(_, _, _)
RestoreFrom(result, map, i) ==
    IF i > Len(map) THEN result
    ELSE LET placeholder == map[i][1]
             original    == map[i][2]
             withNewline == ReplaceAll(result, <<placeholder, NL>>, original)
         IN  RestoreFrom(ReplaceAll(withNewline, <<placeholder>>, original), map, i + 1)

restoreCodeBlocks(content, map) == RestoreFrom(content, map, 1)

\* ------------------------------------------------------------ splitIntoChunks

CHUNK_SIZE == ScaledChunkSize

\* The for loop over lines from line i on, pushed being the chunks pushed so
\* far, and the push of the last buffer after it.
RECURSIVE ChunkLines(_, _, _, _)
ChunkLines(lines, i, pushed, currentChunk) ==
    IF i > Len(lines)
    THEN IF ~TrimsToEmpty(currentChunk) THEN Append(pushed, currentChunk) ELSE pushed
    ELSE IF Len(currentChunk) + Len(lines[i]) + 1 > CHUNK_SIZE /\ Len(currentChunk) > 0
         THEN ChunkLines(lines, i + 1, Append(pushed, currentChunk), lines[i] \o <<NL>>)
         ELSE ChunkLines(lines, i + 1, pushed, currentChunk \o lines[i] \o <<NL>>)

splitIntoChunks(content) ==
    IF Len(content) <= CHUNK_SIZE THEN <<content>>
    ELSE ChunkLines(SplitLines(content), 1, <<>>, <<>>)

\* ------------------------------------------------------------- translateFile

\* buildPrompt: the system message is the template, with the placeholder
\* note appended when hasPlaceholders; the user message is the content.
buildPrompt(content, hasPlaceholders) ==
    [system |-> [placeholderNote |-> hasPlaceholders], user |-> content]

\* The token-usage counters a reply of the provider may carry.
Usages ==
    {[promptTokens |-> 1, completionTokens |-> 2, totalTokens |-> 4],
     [promptTokens |-> 2, completionTokens |-> 0, totalTokens |-> 3]}

ZeroUsage == [promptTokens |-> 0, completionTokens |-> 0, totalTokens |-> 0]

IsPlaceholder(c) == c \notin {NL, CR, BT, " ", "\t", "-", "a", "b"}

\* What the rewriter may answer to a chunk: its prose rewritten with every
\* placeholder kept, or the same with every placeholder left out.
Rewritten(chunk) == [i \in 1..Len(chunk) |-> IF chunk[i] = "a" THEN "b" ELSE chunk[i]]
WithoutPlaceholders(chunk) == SelectSeq(chunk, LAMBDA c : ~IsPlaceholder(c))

ReplyContent(kind, chunk) ==
    IF kind = "kept" THEN Rewritten(chunk) ELSE WithoutPlaceholders(Rewritten(chunk))

Replies ==
    {[kind |-> "kept", usage |-> CHOOSE u \in Usages : u.promptTokens = 1],
     [kind |-> "omitted", usage |-> CHOOSE u \in Usages : u.promptTokens = 2]}

\* Mutant of AddUsage: the completion counter is assigned, not accumulated.
AddUsageAssigningCompletion(total, usage) ==
    [promptTokens     |-> total.promptTokens + usage.promptTokens,
     completionTokens |-> usage.completionTokens,
     totalTokens      |-> total.totalTokens + usage.totalTokens]

AddUsage(total, usage) ==
    [promptTokens     |-> total.promptTokens + usage.promptTokens,
     completionTokens |-> total.completionTokens + usage.completionTokens,
     totalTokens      |-> total.totalTokens + usage.totalTokens]

\* Lines 239-249: restore, recombine with the frontmatter.
Recombine(fm, parts, map) ==
    LET translatedBody == restoreCodeBlocks(Join(parts), map)
    IN  IF fm # Null /\ fm[1] # <<>> THEN fm[1] \o translatedBody ELSE translatedBody

\* Mutant of Finish: a placeholder of the map that the parts lack is an error.
FinishCheckingPlaceholders(fm, parts, map, usage, nChunks) ==
    IF \E i \in 1..Len(map) : \A k \in 1..Len(Join(parts)) : Join(parts)[k] # map[i][1]
    THEN /\ outcome' = [kind |-> "thrown", error |-> "placeholder lost",
                        usage |-> ZeroUsage, chunks |-> 0]
         /\ pc' = "thrown"
         /\ UNCHANGED outputFile
    ELSE /\ outputFile' = Some(Recombine(fm, parts, map))
         /\ outcome' = [kind |-> "returned", error |-> "", usage |-> usage,
                        chunks |-> nChunks]
         /\ pc' = "returned"

\* Lines 239-255: restore, recombine, write the output and return.
Finish(fm, parts, map, usage, nChunks) ==
    /\ outputFile' = Some(Recombine(fm, parts, map))
    /\ outcome' = [kind |-> "returned", error |-> "", usage |-> usage, chunks |-> nChunks]
    /\ pc' = "returned"

Throw(error) ==
    /\ outcome' = [kind |-> "thrown", error |-> error, usage |-> ZeroUsage, chunks |-> 0]
    /\ pc' = "thrown"

\* translateFile up to its first await: lines 191-231.
Start ==
    /\ pc = "idle"
    /\ UNCHANGED <<inputFile, replies, rejections, fmVars, codeVars, chunkVars, moreVars>>
    /\ IF inputFile.state = "missing"
       THEN /\ Throw("Input file not found")
            /\ UNCHANGED <<outputFile, madeDir, frontmatter, protectedBody, codeMap,
                           chunks, translatedParts, totalUsage, requests>>
       ELSE IF inputFile.state = "unreadable"
       THEN /\ Throw("read error")
            /\ UNCHANGED <<outputFile, madeDir, frontmatter, protectedBody, codeMap,
                           chunks, translatedParts, totalUsage, requests>>
       ELSE IF TrimsToEmpty(inputFile.content)
       THEN /\ Throw("Input file is empty")
            /\ UNCHANGED <<outputFile, madeDir, frontmatter, protectedBody, codeMap,
                           chunks, translatedParts, totalUsage, requests>>
       ELSE LET sep   == separateFrontmatter(inputFile.content)
                prot  == protectCodeBlocks(sep.body)
                parts == splitIntoChunks(prot.text)
            IN  /\ madeDir' = TRUE
                /\ frontmatter' = sep.frontmatter
                /\ protectedBody' = prot.text
                /\ codeMap' = prot.map
                /\ chunks' = parts
                /\ translatedParts' = <<>>
                /\ totalUsage' = ZeroUsage
                /\ IF parts = <<>>
                   THEN /\ Finish(sep.frontmatter, <<>>, prot.map, ZeroUsage, 0)
                        /\ UNCHANGED requests
                   ELSE /\ requests' = <<buildPrompt(parts[1], Len(prot.map) > 0)>>
                        /\ pc' = "awaiting"
                        /\ UNCHANGED <<outputFile, outcome>>

\* Mutant of OnResponse: the reply is put in front of the recorded parts.
OnResponseUnshifting(reply) ==
    /\ pc = "awaiting"
    /\ LET chunk == chunks[Len(translatedParts) + 1]
           parts == <<ReplyContent(reply.kind, chunk)>> \o translatedParts
           usage == AddUsage(totalUsage, reply.usage)
       IN  /\ translatedParts' = parts
           /\ totalUsage' = usage
           /\ replies' = Append(replies, [content |-> ReplyContent(reply.kind, chunk),
                                          usage |-> reply.usage])
           /\ IF Len(parts) < Len(chunks)
              THEN /\ requests' = Append(requests,
                                         buildPrompt(chunks[Len(parts) + 1], Len(codeMap) > 0))
                   /\ UNCHANGED <<outputFile, outcome, pc>>
              ELSE /\ Finish(frontmatter, parts, codeMap, usage, Len(chunks))
                   /\ UNCHANGED requests
    /\ UNCHANGED <<inputFile, madeDir, frontmatter, protectedBody, codeMap, chunks,
                   rejections, fmVars, codeVars, chunkVars, moreVars>>

\* provider.chat resolves: lines 233-236, then the next iteration up to its
\* await, or lines 239-255 after the last chunk.
OnResponse(reply) ==
    /\ pc = "awaiting"
    /\ LET chunk == chunks[Len(translatedParts) + 1]
           parts == Append(translatedParts, ReplyContent(reply.kind, chunk))
           usage == AddUsage(totalUsage, reply.usage)
       IN  /\ translatedParts' = parts
           /\ totalUsage' = usage
           /\ replies' = Append(replies, [content |-> ReplyContent(reply.kind, chunk),
                                          usage |-> reply.usage])
           /\ IF Len(parts) < Len(chunks)
              THEN /\ requests' = Append(requests,
                                         buildPrompt(chunks[Len(parts) + 1], Len(codeMap) > 0))
                   /\ UNCHANGED <<outputFile, outcome, pc>>
              ELSE /\ Finish(frontmatter, parts, codeMap, usage, Len(chunks))
                   /\ UNCHANGED requests
    /\ UNCHANGED <<inputFile, madeDir, frontmatter, protectedBody, codeMap, chunks,
                   rejections, fmVars, codeVars, chunkVars, moreVars>>

\* Mutant of OnReject: the failed chunk is sent again.
OnRejectRetrying ==
    /\ pc = "awaiting"
    /\ rejections' = rejections + 1
    /\ requests' = Append(requests, requests[Len(requests)])
    /\ UNCHANGED <<inputFile, outputFile, madeDir, pc, frontmatter, protectedBody,
                   codeMap, chunks, translatedParts, totalUsage, replies, outcome,
                   fmVars, codeVars, chunkVars, moreVars>>

\* provider.chat rejects: the await throws and translateFile rejects with it.
OnReject ==
    /\ pc = "awaiting"
    /\ rejections' = rejections + 1
    /\ Throw("upstream failure")
    /\ UNCHANGED <<inputFile, outputFile, madeDir, frontmatter, protectedBody, codeMap,
                   chunks, translatedParts, totalUsage, requests, replies,
                   fmVars, codeVars, chunkVars, moreVars>>

\* ------------------------------------------------------------------- inputs

\* The texts of n lines of the given kinds, each line but the last ended by
\* eol, the last one ended by last.
RECURSIVE JoinLines(_, _, _)
JoinLines(lines, eol, last) ==
    IF lines = <<>> THEN <<>>
    ELSE IF Len(lines) = 1 THEN lines[1] \o last
    ELSE lines[1] \o eol \o JoinLines(Tail(lines), eol, last)

LinesUpTo(kinds, n) == UNION {[1..k -> kinds] : k \in 0..n}

LF == <<NL>>
CRLF == <<CR, NL>>

\* Bodies of input files: plain lines, inline code in single and in double
\* backticks, fences, a line of dashes.
DocLineKinds ==
    {<<>>, <<"a">>, <<"a", BT, "a", BT>>, <<BT, BT, "a", BT, BT>>, <<BT, BT, BT>>,
     <<"-", "-", "-">>}

\* What may precede the body: nothing, a frontmatter block, an empty one, one
\* that is opened and never closed.
DocHeads ==
    {<<>>, <<<<"-", "-", "-">>, <<"a">>, <<"-", "-", "-">>>>,
     <<<<"-", "-", "-">>, <<"-", "-", "-">>>>,
     <<<<"-", "-", "-">>, <<"a", BT, "a", BT>>>>}

Docs ==
    {JoinLines(head \o lines, eol, last) :
        head \in DocHeads, lines \in LinesUpTo(DocLineKinds, MaxDocLines),
        eol \in {LF, CRLF}, last \in {<<>>, LF}}

InputFiles ==
    {[state |-> "file", content |-> d] : d \in Docs}
        \cup {[state |-> "missing", content |-> <<>>],
              [state |-> "unreadable", content |-> <<>>]}

\* ------------------------------------------------------------ specifications

IdleFm == raw = <<>> /\ separation = Null
IdleCode == text = <<>> /\ protection = Null /\ restored = Null
IdleChunk == body = <<>> /\ chunkList = Null
IdleGl ==
    /\ glossaryFile = Null /\ docFile = Null /\ docShape = Null /\ checkLang = Null
    /\ checkOutcome = Null /\ syncOutcome = Null /\ initForce = Null
    /\ initOutcome = Null
IdleOv == ovLine = Null /\ ovWord = Null /\ ovCanonical = Null /\ ovResult = Null
IdleBatch ==
    /\ batchOpts = Null /\ batchPc = "idle" /\ batchIndex = 0 /\ batchProgress = Null
    /\ batchErrors = <<>> /\ batchAttempts = <<>> /\ batchCalls = <<>>
    /\ batchReports = <<>> /\ batchResult = Null
IdlePath == pathOpts = Null /\ pathOutputs = Null
IdlePrompt == promptGlossary = Null /\ promptLang = Null /\ promptLines = Null
IdleOther == IdlePath /\ IdlePrompt /\ syncRuns = 0
IdleMore == IdleGl /\ IdleOv /\ IdleBatch /\ IdleOther
IdleTf ==
    /\ inputFile = [state |-> "missing", content |-> <<>>]
    /\ outputFile = Null
    /\ madeDir = FALSE
    /\ pc = "idle"
    /\ frontmatter = Null
    /\ protectedBody = <<>>
    /\ codeMap = <<>>
    /\ chunks = <<>>
    /\ translatedParts = <<>>
    /\ totalUsage = ZeroUsage
    /\ requests = <<>>
    /\ replies = <<>>
    /\ rejections = 0
    /\ outcome = [kind |-> "pending", error |-> "", usage |-> ZeroUsage, chunks |-> 0]

\* One call of translateFile on some input file, the destination not yet
\* existing.
Init ==
    /\ IdleFm /\ IdleCode /\ IdleChunk /\ IdleMore
    /\ inputFile \in InputFiles
    /\ outputFile = Null
    /\ madeDir = FALSE
    /\ pc = "idle"
    /\ frontmatter = Null
    /\ protectedBody = <<>>
    /\ codeMap = <<>>
    /\ chunks = <<>>
    /\ translatedParts = <<>>
    /\ totalUsage = ZeroUsage
    /\ requests = <<>>
    /\ replies = <<>>
    /\ rejections = 0
    /\ outcome = [kind |-> "pending", error |-> "", usage |-> ZeroUsage, chunks |-> 0]

Next ==
    \/ Start
    \/ \E reply \in Replies : OnResponse(reply)
    \/ OnReject

Spec == Init /\ [][Next]_vars

\* separateFrontmatter on its own.  The raw documents: lines that are or
\* nearly are delimiters, in both line-ending conventions, with and without a
\* final line ending.
RawLineKinds ==
    {<<>>, <<"a">>, <<"-", "-", "-">>, <<"-", "-", "-", " ">>, <<"-", "-", "-", "\t">>,
     <<"-", "-", "-", "-">>, <<" ", "-", "-", "-">>}

RawDocs ==
    {JoinLines(lines, eol, last) :
        lines \in LinesUpTo(RawLineKinds, MaxFmLines),
        eol \in {LF, CRLF}, last \in {<<>>, LF, CRLF}}

InitFrontmatter ==
    /\ raw \in RawDocs
    /\ separation = Null
    /\ IdleCode /\ IdleChunk /\ IdleTf /\ IdleMore

Separate ==
    /\ separation = Null
    /\ separation' = Some(separateFrontmatter(raw))
    /\ UNCHANGED <<raw, codeVars, chunkVars, tfVars, moreVars>>

SpecFrontmatter == InitFrontmatter /\ [][Separate]_vars

\* protectCodeBlocks, then restoreCodeBlocks on what it returned.  The texts:
\* fences of three and four backticks, bare, with an info string and with a
\* trailing blank, and inline spans at the start, in the middle and at the end
\* of a line.
CodeLineKinds ==
    {<<>>, <<"a">>, <<BT, BT, BT>>, <<BT, BT, BT, BT>>, <<BT, BT, BT, "a">>,
     <<BT, BT, BT, " ">>, <<BT, "a", BT, "a">>, <<"a", BT, "a", BT>>,
     <<"a", BT, "a", BT, "a">>}

CodeTexts ==
    {JoinLines(lines, LF, last) :
        lines \in LinesUpTo(CodeLineKinds, MaxCodeLines), last \in {<<>>, LF}}

InitCode ==
    /\ text \in CodeTexts
    /\ protection = Null
    /\ restored = Null
    /\ IdleFm /\ IdleChunk /\ IdleTf /\ IdleMore

Protect ==
    /\ protection = Null
    /\ protection' = Some(protectCodeBlocks(text))
    /\ UNCHANGED <<text, restored, fmVars, chunkVars, tfVars, moreVars>>

Restore ==
    /\ protection # Null
    /\ restored = Null
    /\ restored' = Some(restoreCodeBlocks(protection[1].text, protection[1].map))
    /\ UNCHANGED <<text, protection, fmVars, chunkVars, tfVars, moreVars>>

NextCode == Protect \/ Restore

SpecCode == InitCode /\ [][NextCode]_vars

\* splitIntoChunks on its own.  The bodies: every text of prose characters,
\* blanks and newlines up to MaxBodyLen characters.
BodyChars == {"a", " ", NL}

Bodies == UNION {[1..n -> BodyChars] : n \in 0..MaxBodyLen}

InitChunks ==
    /\ body \in Bodies
    /\ chunkList = Null
    /\ IdleFm /\ IdleCode /\ IdleTf /\ IdleMore

Split ==
    /\ chunkList = Null
    /\ chunkList' = Some(splitIntoChunks(body))
    /\ UNCHANGED <<body, fmVars, codeVars, tfVars, moreVars>>

SpecChunks == InitChunks /\ [][Split]_vars

\* ================================================================== claims

\* --------------------------------------------------- separateFrontmatter

\* The raw text with every carriage return that a newline follows left out.
RECURSIVE WithoutCrBeforeNl(_, _)
WithoutCrBeforeNl(s, i) ==
    IF i > Len(s) THEN <<>>
    ELSE IF s[i] = CR /\ i < Len(s) /\ s[i + 1] = NL THEN WithoutCrBeforeNl(s, i + 1)
    ELSE <<s[i]>> \o WithoutCrBeforeNl(s, i + 1)

LineEndingNormalized(s) == WithoutCrBeforeNl(s, 1)

\* A line of three dashes and nothing else.
IsOpeningLine(line) == line = <<"-", "-", "-">>

\* A line of three dashes, blanks at most after them.
IsClosingLine(line) ==
    /\ Len(line) >= 3
    /\ \A i \in 1..Len(line) : IF i <= 3 THEN line[i] = "-" ELSE IsBlank(line[i])

\* The lines after the first that close a block the first line opens.
ClosingLines(s) ==
    LET lines == SplitLines(s)
    IN  IF IsOpeningLine(lines[1])
        THEN {j \in 2..Len(lines) : IsClosingLine(lines[j])}
        ELSE {}

\* The length of the first j lines of s, their newlines included.
RECURSIVE LengthOfLines(_, _)
LengthOfLines(s, j) ==
    LET lines == SplitLines(s)
        upTo  == IF j = 0 THEN 0 ELSE LengthOfLines(s, j - 1) + Len(lines[j]) + 1
    IN  IF upTo > Len(s) THEN Len(s) ELSE upTo

\* C9: when separateFrontmatter detects a block, frontmatter followed by body
\* is the line-ending-normalized raw text; when no well-formed block starts
\* the document, frontmatter is null and body is the whole normalized text.
C9_SeparationReconstructs ==
    separation # Null =>
        LET result     == separation[1]
            normalized == LineEndingNormalized(raw)
        IN  /\ result.frontmatter # Null =>
                    result.frontmatter[1] \o result.body = normalized
            /\ ClosingLines(normalized) = {} =>
                    result.frontmatter = Null /\ result.body = normalized

\* C9 witness: a block detected in a document with Windows line endings, and
\* a non-empty body left after it.
C9_Witness ==
    /\ separation # Null
    /\ separation[1].frontmatter # Null
    /\ separation[1].body # <<>>
    /\ \E i \in 1..Len(raw) : raw[i] = CR

\* C10: the block closes at the first closing line after the opening line, so
\* frontmatter is the lines up to and including that one and body is all that
\* follows; in particular an opening line immediately followed by a closing
\* line gives a frontmatter of exactly those two lines.
C10_ClosesAtFirstClosingLine ==
    separation # Null =>
        LET result     == separation[1]
            normalized == LineEndingNormalized(raw)
            closing    == ClosingLines(normalized)
        IN  closing # {} =>
                LET n == LengthOfLines(normalized, Min(closing))
                IN  /\ result.frontmatter = Some(Slice(normalized, 1, n))
                    /\ result.body = Slice(normalized, n + 1, Len(normalized))

\* -------------------------------------- protectCodeBlocks, restoreCodeBlocks

\* C1: restoring the protected text with the map protect returned gives the
\* text back exactly.
C1_RoundTrip == restored # Null => restored[1] = text

\* ------------------------------------------------------------ splitIntoChunks

\* C2: the chunks, concatenated in index order, are the body exactly.
C2_ChunksReconstructBody == chunkList # Null => Join(chunkList[1]) = body

\* -------------------------------------------------------------- translateFile

\* The input file's text, line endings normalized, and the part of it after
\* the frontmatter block.
NormalizedInput == LineEndingNormalized(inputFile.content)

BodyOfInput ==
    IF frontmatter = Null THEN NormalizedInput
    ELSE Slice(NormalizedInput, Len(frontmatter[1]) + 1, Len(NormalizedInput))

\* The user messages sent so far, in the order they were sent.
SentChunks == [i \in 1..Len(requests) |-> requests[i].user]

\* The texts the rewriter returned so far, in the order they came back.
ReturnedTexts == [i \in 1..Len(replies) |-> replies[i].content]

\* The frontmatter is the head of the normalized input, and what has been
\* sent are the first chunks of the protected rest of it.
FrontmatterNeverSent ==
    /\ frontmatter # Null => HasAt(NormalizedInput, 1, frontmatter[1])
    /\ LET expected == splitIntoChunks(protectCodeBlocks(BodyOfInput).text)
       IN  /\ Len(requests) <= Len(expected)
           /\ SentChunks = SubSeq(expected, 1, Len(requests))

\* The rewritten chunks concatenated in the order returned, with the
\* placeholders restored.
RestoredRewrittenBody == restoreCodeBlocks(Join(ReturnedTexts), codeMap)

\* C3 as stated: the frontmatter block is never sent, and the output is the
\* characters of the input that make up the block, unchanged, followed by the
\* restored rewritten body.
C3_FrontmatterVerbatim ==
    /\ FrontmatterNeverSent
    /\ pc = "returned" =>
        IF frontmatter = Null THEN outputFile = Some(RestoredRewrittenBody)
        ELSE \E k \in 1..Len(inputFile.content) :
                /\ LineEndingNormalized(Slice(inputFile.content, 1, k)) = frontmatter[1]
                /\ outputFile = Some(Slice(inputFile.content, 1, k) \o RestoredRewrittenBody)

\* What holds in place of C3: the block comes out with its line endings
\* normalized, otherwise unchanged, followed by the restored rewritten body.
FrontmatterNormalizedInOutput ==
    /\ FrontmatterNeverSent
    /\ pc = "returned" =>
        IF frontmatter = Null THEN outputFile = Some(RestoredRewrittenBody)
        ELSE outputFile =
                Some(Slice(NormalizedInput, 1, Len(frontmatter[1])) \o RestoredRewrittenBody)

\* s occurs somewhere in m.
Occurs(s, m) == \E p \in 1..(Len(m) + 1) : HasAt(m, p, s)

\* The characters p..e of m hold a placeholder token.
HoldsPlaceholder(m, p, e) == \E k \in p..e : IsPlaceholder(m[k])

\* What is left of code in m: no fenced block the pattern detects, and no
\* inline span it detects other than backticks left around a placeholder.
NoCodeSpanIn(m) ==
    \A p \in 1..Len(m) :
        /\ FencedMatchAt(m, p) = 0
        /\ InlineMatchAt(m, p) > 0 => HoldsPlaceholder(m, p, InlineMatchAt(m, p))

RECURSIVE SumOf(_, _)
SumOf(usages, counter) ==
    IF usages = <<>> THEN 0
    ELSE Head(usages).usage[counter] + SumOf(Tail(usages), counter)

\* C5: chunk i + 1 is requested only once the reply to chunk i is recorded:
\* the requests are the chunks in index order, at most one is outstanding, the
\* recorded parts and usage are those of the replies in the order requested,
\* the output is built from the parts in that order, and a step that issues a
\* request leaves every earlier one answered and recorded.
C5_ChunksInOrderOneAtATime ==
    /\ [](/\ SentChunks = SubSeq(chunks, 1, Len(requests))
          /\ translatedParts = ReturnedTexts
          /\ \A counter \in {"promptTokens", "completionTokens", "totalTokens"} :
                totalUsage[counter] = SumOf(replies, counter)
          /\ Len(requests) \in {Len(translatedParts), Len(translatedParts) + 1}
          /\ pc = "returned" => outputFile = Some(Recombine(frontmatter, ReturnedTexts, codeMap)))
    /\ [][Len(requests') # Len(requests) =>
            /\ Len(requests') = Len(requests) + 1
            /\ Len(translatedParts') = Len(requests)
            /\ Len(replies') = Len(requests)]_vars

\* C5 witness: a third chunk has been requested.
C5_Witness == Len(requests) >= 3 /\ pc = "awaiting"

\* C6: on success each counter of the result is the sum of that counter over
\* the replies, the rewriter was invoked once per chunk, and the chunk count
\* returned is the number of invocations.
C6_UsageSummedPerChunk ==
    pc = "returned" =>
        /\ \A counter \in {"promptTokens", "completionTokens", "totalTokens"} :
                outcome.usage[counter] = SumOf(replies, counter)
        /\ Len(requests) = Len(chunks)
        /\ SentChunks = chunks
        /\ Len(replies) = Len(requests)
        /\ outcome.chunks = Len(requests)

\* C6 witness: a success over several chunks whose replies carried different
\* counters.
C6_Witness ==
    /\ pc = "returned"
    /\ Len(replies) >= 2
    /\ replies[1].usage # replies[2].usage

\* The input file is missing, or holds white space only.
MissingOrEmpty ==
    \/ inputFile.state = "missing"
    \/ inputFile.state = "file" /\ \A i \in 1..Len(inputFile.content) :
            inputFile.content[i] \in {" ", "\t", NL, CR}

\* C7: on a missing or empty source the call ends in an error, the rewriter is
\* never invoked, no output is written and no directory is created.
C7_FailsFast ==
    MissingOrEmpty =>
        /\ pc \in {"idle", "thrown"}
        /\ pc = "thrown" => outcome.kind = "thrown" /\
                outcome.error = (IF inputFile.state = "missing"
                                 THEN "Input file not found" ELSE "Input file is empty")
        /\ requests = <<>>
        /\ outputFile = Null
        /\ ~madeDir

\* C7 witness: the call has thrown on a file of white space.
C7_Witness ==
    /\ pc = "thrown"
    /\ inputFile.state = "file"
    /\ inputFile.content # <<>>
    /\ outcome.error = "Input file is empty"

\* C8: when the rewriter fails on chunk k the call rejects with that failure:
\* chunk k was sent once, no later chunk is sent, nothing is written, and
\* nothing happens after the rejection.
C8_UpstreamFailurePropagated ==
    /\ [](rejections > 0 =>
            /\ rejections = 1
            /\ pc = "thrown"
            /\ outcome.kind = "thrown" /\ outcome.error = "upstream failure"
            /\ outputFile = Null
            /\ Len(requests) = Len(replies) + 1
            /\ SentChunks = SubSeq(chunks, 1, Len(requests)))
    /\ [][rejections > 0 => UNCHANGED vars]_vars

\* C8 witness: the rewriter failed on the second chunk.
C8_Witness == rejections = 1 /\ Len(replies) = 1 /\ Len(chunks) >= 3

\* ================================================================ nested fences

\* Number of lines of the texts with nested fences given to protectCodeBlocks.
MaxNestedLines == 5

\* protectCodeBlocks on texts whose fences open lines: prose, an inline span,
\* fences of three and of four backticks, a fence with an info string.
NestedLineKinds ==
    {<<"a">>, <<BT, "a", BT>>, <<BT, BT, BT>>, <<BT, BT, BT, BT>>,
     <<BT, BT, BT, "a">>}

NestedTexts ==
    {JoinLines(lines, LF, last) :
        lines \in LinesUpTo(NestedLineKinds, MaxNestedLines), last \in {<<>>, LF}}

InitNested ==
    /\ text \in NestedTexts
    /\ protection = Null
    /\ restored = Null
    /\ IdleFm /\ IdleChunk /\ IdleTf /\ IdleMore

SpecNested == InitNested /\ [][Protect]_vars

\* The fenced blocks of a text read line by line: a line that starts with a
\* run of n >= 3 backticks opens a block, the first later line made of a run
\* of n backticks or more and blanks closes it.
IsFenceOpen(line) == BacktickRun(line, 1) >= 3

IsFenceClose(line, n) ==
    /\ BacktickRun(line, 1) >= n
    /\ \A k \in (BacktickRun(line, 1) + 1)..Len(line) : IsBlank(line[k])

\* The blocks of lines from line i on, each <<opening line, closing line>>;
\* closed is FALSE when a block is opened and never closed.
RECURSIVE ScanFences(_, _)
ScanFences(lines, i) ==
    IF i > Len(lines) THEN [closed |-> TRUE, blocks |-> <<>>]
    ELSE IF IsFenceOpen(lines[i])
    THEN LET closers == {j \in (i + 1)..Len(lines) :
                            IsFenceClose(lines[j], BacktickRun(lines[i], 1))}
         IN  IF closers = {} THEN [closed |-> FALSE, blocks |-> <<>>]
             ELSE LET rest == ScanFences(lines, Min(closers) + 1)
                  IN  [closed |-> rest.closed,
                       blocks |-> <<<<i, Min(closers)>>>> \o rest.blocks]
    ELSE ScanFences(lines, i + 1)

\* The text of block b: its lines and the line ending of its closing line.
BlockText(lines, b) ==
    JoinLines(SubSeq(lines, b[1], b[2]), LF, IF b[2] < Len(lines) THEN LF ELSE <<>>)

\* The lines from line i on with block k, k + 1, ... each replaced by its
\* placeholder and a newline.
RECURSIVE MaskBlocks(_, _, _, _)
MaskBlocks(lines, i, blocks, k) ==
    IF i > Len(lines) THEN <<>>
    ELSE IF k <= Len(blocks) /\ blocks[k][1] = i
    THEN <<BlockPlaceholder(k - 1), NL>> \o MaskBlocks(lines, blocks[k][2] + 1, blocks, k + 1)
    ELSE lines[i] \o (IF i < Len(lines) THEN LF ELSE <<>>)
             \o MaskBlocks(lines, i + 1, blocks, k)

\* C11: in a text whose fenced blocks are all closed, each block, from its
\* opening line of N backticks to the first later line of N backticks or
\* more, is one block placeholder and one map entry holding the whole block,
\* whatever shorter fences and inline-looking spans it contains; the inline
\* placeholders are those of the spans outside the blocks, and nothing that
\* the map holds was protected a second time.
C11_OuterFenceProtectedWhole ==
    (protection # Null /\ ScanFences(SplitLines(text), 1).closed) =>
        LET lines   == SplitLines(text)
            blocks  == ScanFences(lines, 1).blocks
            outside == ReplaceInline(MaskBlocks(lines, 1, blocks, 1), 1, 0)
        IN  /\ protection[1].text = outside.text
            /\ protection[1].map =
                   [k \in 1..Len(blocks) |->
                       <<BlockPlaceholder(k - 1), BlockText(lines, blocks[k])>>]
                   \o outside.map
            /\ \A e \in 1..Len(protection[1].map) :
                   \A c \in 1..Len(protection[1].map[e][2]) :
                       ~IsPlaceholder(protection[1].map[e][2][c])

\* C11 witness: a block protected whole that holds a fence shorter than its
\* own and an inline-looking span.
C11_Witness ==
    /\ protection # Null
    /\ ScanFences(SplitLines(text), 1).closed
    /\ LET lines  == SplitLines(text)
           blocks == ScanFences(lines, 1).blocks
       IN  \E k \in 1..Len(blocks) :
               /\ \E i \in (blocks[k][1] + 1)..(blocks[k][2] - 1) :
                      /\ IsFenceOpen(lines[i])
                      /\ BacktickRun(lines[i], 1) < BacktickRun(lines[blocks[k][1]], 1)
               /\ \E i \in (blocks[k][1] + 1)..(blocks[k][2] - 1) :
                      InlineMatchAt(lines[i], 1) > 0
               /\ protection[1].map[k] =
                      <<BlockPlaceholder(k - 1), BlockText(lines, blocks[k])>>

\* ===================================================================== glossary

\* ------------------------------------------------------------ loadGlossary

\* parse(content) of the yaml package: the value a file's text stands for.  A
\* file is held as that value and whether the text carries comments; the value
\* is a mapping with the keys version, languages and terms (languages and
\* terms Null when the key is absent or holds no array) or a scalar.
Parse(content) == content.yaml

\* stringify(value) of the yaml package: the text of a value, without comments.
Stringify(value) == [yaml |-> value, comments |-> FALSE]

\* What loadGlossary does on a glossary file (Null when there is none): the
\* error thrown ("" when none is) and the value returned.
loadGlossary(file) ==
    IF file = Null THEN [error |-> "", glossary |-> Null]
    ELSE LET loaded == Parse(file[1])
         IN  IF loaded.kind # "map"
             THEN [error |-> "Invalid glossary file", glossary |-> Null]
             ELSE IF loaded.terms = Null
             THEN [error |-> "Glossary file must have a terms array", glossary |-> Null]
             ELSE IF loaded.languages = Null
             THEN [error |-> "Glossary file must have a languages array", glossary |-> Null]
             ELSE [error |-> "", glossary |-> Some(loaded)]

\* term.translations[lang]: Null when the key is absent (undefined).
TranslationOf(term, lang) ==
    IF lang \in DOMAIN term.translations THEN Some(term.translations[lang]) ELSE Null

\* term.do_not_use?.[lang] ?? []
ForbiddenOf(term, lang) ==
    IF term.do_not_use = Null THEN <<>>
    ELSE IF lang \in DOMAIN term.do_not_use[1] THEN term.do_not_use[1][lang]
    ELSE <<>>

\* ----------------------------------------------------------- checkGlossary

\* Mutant of Includes: every language passes.
IncludesAnything(list, x) == TRUE

\* Array.prototype.includes
Includes(list, x) == \E i \in 1..Len(list) : list[i] = x

\* s.indexOf(pat, from - 1) + 1: the first position >= from at which pat
\* occurs in s, 0 when there is none (-1 in the code).
IndexOf(s, pat, from) ==
    LET hits == {i \in from..Len(s) : HasAt(s, i, pat)}
    IN  IF hits = {} THEN 0 ELSE Min(hits)

\* The while loop of isOccurrenceCoveredByCanonical, posInCanonical being the
\* position of forbiddenWord in canonicalTranslation under test (0: no more).
RECURSIVE CoveredFrom(_, _, _, _, _)
CoveredFrom(line, forbiddenIdx, forbiddenWord, canonicalTranslation, posInCanonical) ==
    IF posInCanonical = 0 THEN FALSE
    ELSE LET canonicalStart == forbiddenIdx - (posInCanonical - 1)
         IN  IF canonicalStart >= 1 /\ HasAt(line, canonicalStart, canonicalTranslation)
             THEN TRUE
             ELSE CoveredFrom(line, forbiddenIdx, forbiddenWord, canonicalTranslation,
                              IndexOf(canonicalTranslation, forbiddenWord, posInCanonical + 1))

\* canonicalTranslation is Null (undefined) or holds a text; the empty text is
\* falsy like undefined.
isOccurrenceCoveredByCanonical(line, forbiddenIdx, forbiddenWord, canonicalTranslation) ==
    IF canonicalTranslation = Null \/ canonicalTranslation = Some(<<>>) THEN FALSE
    ELSE CoveredFrom(line, forbiddenIdx, forbiddenWord, canonicalTranslation[1],
                     IndexOf(canonicalTranslation[1], forbiddenWord, 1))

\* Mutant of UncoveredFrom: the search stops at the first occurrence.
UncoveredAtFirst(line, forbiddenWord, canonicalTranslation, searchPos) ==
    LET idx == IndexOf(line, forbiddenWord, searchPos)
    IN  IF idx = 0 THEN FALSE
        ELSE ~isOccurrenceCoveredByCanonical(line, idx, forbiddenWord, canonicalTranslation)

\* The while loop of hasUncoveredOccurrence from searchPos on.
RECURSIVE UncoveredFrom(_, _, _, _)
UncoveredFrom(line, forbiddenWord, canonicalTranslation, searchPos) ==
    LET idx == IndexOf(line, forbiddenWord, searchPos)
    IN  IF idx = 0 THEN FALSE
        ELSE IF ~isOccurrenceCoveredByCanonical(line, idx, forbiddenWord, canonicalTranslation)
        THEN TRUE
        ELSE UncoveredFrom(line, forbiddenWord, canonicalTranslation, idx + 1)

hasUncoveredOccurrence(line, forbiddenWord, canonicalTranslation) ==
    IF forbiddenWord = <<>> THEN FALSE
    ELSE UncoveredFrom(line, forbiddenWord, canonicalTranslation, 1)

\* /https?:\/\/\S+/ at position p: the position of the last character matched,
\* 0 when the pattern does not match there.
UrlMatchAt(s, p) ==
    LET n     == IF HasAt(s, p, <<"h", "t", "t", "p", "s", ":", "/", "/">>) THEN 8
                 ELSE IF HasAt(s, p, <<"h", "t", "t", "p", ":", "/", "/">>) THEN 7
                 ELSE 0
        stops == {j \in (p + n)..Len(s) : IsWhitespace(s[j])}
        e     == IF stops = {} THEN Len(s) ELSE Min(stops) - 1
    IN  IF n > 0 /\ e >= p + n THEN e ELSE 0

\* /\]\([^)]+\)/ at position p: the position of the closing parenthesis, 0
\* when the pattern does not match there.
LinkTargetMatchAt(s, p) ==
    LET closes == {j \in (p + 2)..Len(s) : s[j] = ")"}
    IN  IF HasAt(s, p, <<"]", "(">>) /\ closes # {} /\ Min(closes) > p + 2
        THEN Min(closes)
        ELSE 0

\* .replace(/https?:\/\/\S+/g, "") from position p on.
RECURSIVE RemoveUrls(_, _)
RemoveUrls(s, p) ==
    LET starts == {q \in p..Len(s) : UrlMatchAt(s, q) > 0}
    IN  IF starts = {} THEN Slice(s, p, Len(s))
        ELSE Slice(s, p, Min(starts) - 1) \o RemoveUrls(s, UrlMatchAt(s, Min(starts)) + 1)

\* .replace(/\]\([^)]+\)/g, "") from position p on.
RECURSIVE RemoveLinkTargets(_, _)
RemoveLinkTargets(s, p) ==
    LET starts == {q \in p..Len(s) : LinkTargetMatchAt(s, q) > 0}
    IN  IF starts = {} THEN Slice(s, p, Len(s))
        ELSE Slice(s, p, Min(starts) - 1)
                 \o RemoveLinkTargets(s, LinkTargetMatchAt(s, Min(starts)) + 1)

\* Mutant of LineWithoutUrls: the line is scanned as it is.
LineWithUrls(line) == line

\* lineWithoutUrls and valueWithoutUrls
LineWithoutUrls(line) == RemoveLinkTargets(RemoveUrls(line, 1), 1)

\* The characters of a placeholder token, which the texts of this model hold
\* as one element: the scan reads them one by one like any other text.
PlaceholderTokens ==
    {BlockPlaceholder(n) : n \in 0..9} \cup {InlinePlaceholder(n) : n \in 0..9}

PlaceholderChars(c) ==
    IF c \notin PlaceholderTokens THEN <<c>>
    ELSE IF \E n \in 0..9 : c = BlockPlaceholder(n)
    THEN <<"_", "_", "C", "O", "D", "E", "_", "B", "L", "O", "C", "K", "_",
           ToString(CHOOSE n \in 0..9 : c = BlockPlaceholder(n)), "_", "_">>
    ELSE IF \E n \in 0..9 : c = InlinePlaceholder(n)
    THEN <<"_", "_", "I", "N", "L", "I", "N", "E", "_", "C", "O", "D", "E", "_",
           ToString(CHOOSE n \in 0..9 : c = InlinePlaceholder(n)), "_", "_">>
    ELSE <<c>>

InCharacters(s) == Join([i \in 1..Len(s) |-> PlaceholderChars(s[i])])

\* frontmatter ? frontmatter.split("\n").length - 1 : 0
FrontmatterLineCount(fm) ==
    IF fm = Null \/ fm = Some(<<>>) THEN 0
    ELSE Cardinality({i \in 1..Len(fm[1]) : fm[1][i] = NL})

\* The innermost loop of checkGlossary: the issues of one forbidden word, one
\* for every scanned string (a line, a JSON value) that hasUncoveredOccurrence
\* accepts.  where[i] is the location of string i: [line, keyPath].
IssuesOfWord(strings, where, forbiddenWord, term, lang) ==
    LET hits == SelectSeq([i \in 1..Len(strings) |-> i],
                    LAMBDA i : hasUncoveredOccurrence(LineWithoutUrls(strings[i]),
                                   forbiddenWord, TranslationOf(term, lang)))
    IN  [k \in 1..Len(hits) |->
            [forbidden |-> forbiddenWord, canonical |-> term.canonical,
             line |-> where[hits[k]].line, keyPath |-> where[hits[k]].keyPath]]

\* The loop over the forbidden words of a term, empty words skipped.
IssuesOfTerm(strings, where, term, lang) ==
    LET forbidden == ForbiddenOf(term, lang)
    IN  Join([w \in 1..Len(forbidden) |->
                 IF forbidden[w] = <<>> THEN <<>>
                 ELSE IssuesOfWord(strings, where, forbidden[w], term, lang)])

\* The loop over glossary.terms.
IssuesOf(strings, where, glossary, lang) ==
    Join([t \in 1..Len(glossary.terms[1]) |->
             IssuesOfTerm(strings, where, glossary.terms[1][t], lang)])

\* extractJsonStringValues.  A JSON value is [type, value, items]: a string
\* with its text, an array with its items, an object with its <<key, value>>
\* entries, or something else (a number, a boolean, null).
RECURSIVE extractJsonStringValues(_, _)
extractJsonStringValues(obj, prefix) ==
    IF obj.type = "string"
    THEN IF prefix # "" THEN <<[keyPath |-> prefix, value |-> obj.value]>> ELSE <<>>
    ELSE IF obj.type = "array"
    THEN Join([i \in 1..Len(obj.items) |->
                  extractJsonStringValues(obj.items[i],
                      IF prefix # "" THEN prefix \o "[" \o ToString(i - 1) \o "]"
                      ELSE "[" \o ToString(i - 1) \o "]")])
    ELSE IF obj.type = "object"
    THEN Join([i \in 1..Len(obj.items) |->
                  extractJsonStringValues(obj.items[i][2],
                      IF prefix # "" THEN prefix \o "." \o obj.items[i][1]
                      ELSE obj.items[i][1])])
    ELSE <<>>

\* JSON mode, lines 152-186.
JsonIssues(parsed, glossary, lang) ==
    LET stringValues == extractJsonStringValues(parsed, "")
    IN  IssuesOf([i \in 1..Len(stringValues) |-> stringValues[i].value],
                 [i \in 1..Len(stringValues) |->
                     [line |-> 0, keyPath |-> stringValues[i].keyPath]],
                 glossary, lang)

\* Markdown mode, lines 190-220.
MarkdownIssues(docContent, glossary, lang) ==
    LET separated            == separateFrontmatter(docContent)
        frontmatterLineCount == FrontmatterLineCount(separated.frontmatter)
        lines                == SplitLines(InCharacters(protectCodeBlocks(separated.body).text))
    IN  IssuesOf(lines,
                 [i \in 1..Len(lines) |->
                     [line |-> i + frontmatterLineCount, keyPath |-> ""]],
                 glossary, lang)

\* How a glossary command ends: it throws error, or returns.
Thrown(error) == [kind |-> "error", error |-> error, issues |-> <<>>]
Returned(issues) == [kind |-> "issues", error |-> "", issues |-> issues]

\* checkGlossary(docPath, glossaryPath, lang) on the document file doc,
\* [state, json, content], json telling that docPath ends in .json.
checkGlossary(doc, file, lang) ==
    LET loaded == loadGlossary(file)
    IN  IF loaded.error # "" THEN Thrown(loaded.error)
        ELSE IF loaded.glossary = Null THEN Thrown("Glossary file not found")
        ELSE IF ~Includes(loaded.glossary[1].languages[1], lang)
        THEN Thrown("Language is not defined in glossary")
        ELSE IF doc.state = "missing" THEN Thrown("Document not found")
        ELSE IF doc.state = "unreadable" THEN Thrown("read error")
        ELSE IF doc.json
        THEN IF ~doc.content.wellFormed THEN Thrown("Failed to parse JSON file")
             ELSE Returned(JsonIssues(doc.content.parsed, loaded.glossary[1], lang))
        ELSE Returned(MarkdownIssues(doc.content, loaded.glossary[1], lang))

\* ------------------------------------------- hasUncoveredOccurrence on its own

\* Lengths of the scanned line, the forbidden word and the canonical
\* translation given to hasUncoveredOccurrence.
MaxOvLine == 5
MaxOvWord == 2
MaxOvCanonical == 3

TextsUpTo(chars, n) == UNION {[1..k -> chars] : k \in 0..n}

InitOverlap ==
    /\ ovLine \in TextsUpTo({"a", "b"}, MaxOvLine)
    /\ ovWord \in TextsUpTo({"a", "b"}, MaxOvWord)
    /\ ovCanonical \in {Null} \cup {Some(c) : c \in TextsUpTo({"a", "b"}, MaxOvCanonical)}
    /\ ovResult = Null
    /\ IdleFm /\ IdleCode /\ IdleChunk /\ IdleTf /\ IdleGl /\ IdleBatch /\ IdleOther

Scan ==
    /\ ovResult = Null
    /\ ovResult' = Some(hasUncoveredOccurrence(ovLine, ovWord, ovCanonical))
    /\ UNCHANGED <<ovLine, ovWord, ovCanonical, fmVars, codeVars, chunkVars, tfVars, glVars,
                   batchVars, otherVars>>

SpecOverlap == InitOverlap /\ [][Scan]_vars

\* ------------------------------------------------ checkGlossary: its inputs

\* Number of segments of the prose line of a document.
MaxSegments == 3

\* A prose line is made of segments.  Each is its text, the text it has once
\* what it hides (the content of a code span, of a URL, of a link target) is
\* replaced by x, and its kind: prose and link text are read by a reader,
\* the rest is not.  The letter b occurs in the canonical translation only.
SegA == [kind |-> "prose", text |-> <<"a">>, neutral |-> <<"a">>]
SegAb == [kind |-> "canonical", text |-> <<"a", "b">>, neutral |-> <<"a", "b">>]
SegSpace == [kind |-> "space", text |-> <<" ">>, neutral |-> <<" ">>]
SegCode == [kind |-> "code", text |-> <<BT, "a", BT>>, neutral |-> <<BT, "x", BT>>]
SegLinkText ==
    [kind |-> "linktext", text |-> <<"[", "a", "]", "(", "x", ")">>,
     neutral |-> <<"[", "a", "]", "(", "x", ")">>]
SegLinkTarget ==
    [kind |-> "link", text |-> <<"[", "x", "]", "(", "a", ")">>,
     neutral |-> <<"[", "x", "]", "(", "x", ")">>]
SegUrl ==
    [kind |-> "url", text |-> <<"h", "t", "t", "p", ":", "/", "/", "a">>,
     neutral |-> <<"h", "t", "t", "p", ":", "/", "/", "x">>]
SegUrlLink ==
    [kind |-> "link",
     text |-> <<"[", "x", "]", "(", "h", "t", "t", "p", "s", ":", "/", "/", "a", ")">>,
     neutral |-> <<"[", "x", "]", "(", "h", "t", "t", "p", "s", ":", "/", "/", "x", ")">>]

Segments ==
    {SegA, SegAb, SegSpace, SegCode, SegLinkText, SegLinkTarget, SegUrl, SegUrlLink}

\* A prose document: a frontmatter block of one line or none, a fenced block
\* of one line or none, then the prose line.  fm and block are Null or hold
\* the content line.
DocHeadShapes ==
    {[fm |-> Null, block |-> Null], [fm |-> Null, block |-> Some(<<"x">>)],
     [fm |-> Some(<<"a">>), block |-> Some(<<"a">>)]}

DocShapes ==
    {[fm |-> head.fm, block |-> head.block, segments |-> segments] :
        head \in DocHeadShapes,
        segments \in UNION {[1..k -> Segments] : k \in 0..MaxSegments}}

\* The text of a document, as it is or with what it hides replaced by x.
ProseLine(shape, asNeutral) ==
    Join([i \in 1..Len(shape.segments) |->
             IF asNeutral THEN shape.segments[i].neutral ELSE shape.segments[i].text])

TextOf(shape, asNeutral) ==
    (IF shape.fm = Null THEN <<>>
     ELSE <<"-", "-", "-", NL>> \o (IF asNeutral THEN <<"x">> ELSE shape.fm[1])
              \o <<NL, "-", "-", "-", NL>>)
    \o (IF shape.block = Null THEN <<>>
        ELSE <<BT, BT, BT, NL>> \o (IF asNeutral THEN <<"x">> ELSE shape.block[1])
                 \o <<NL, BT, BT, BT, NL>>)
    \o ProseLine(shape, asNeutral)

MarkdownFile(content) == [state |-> "file", json |-> FALSE, content |-> content]

\* JSON documents: one that does not parse, a bare string, an object with
\* strings at several depths.
JsonString(value) == [type |-> "string", value |-> value, items |-> <<>>]
JsonTree ==
    [type |-> "object", value |-> <<>>,
     items |-> <<<<"k", JsonString(<<"a">>)>>,
                 <<"l", [type |-> "array", value |-> <<>>,
                         items |-> <<JsonString(<<"a", "b">>),
                                     [type |-> "other", value |-> <<>>, items |-> <<>>]>>]>>>>]
JsonFiles ==
    {[state |-> "file", json |-> TRUE,
      content |-> [wellFormed |-> FALSE, parsed |-> JsonString(<<>>)]],
     [state |-> "file", json |-> TRUE,
      content |-> [wellFormed |-> TRUE, parsed |-> JsonString(<<"a">>)]],
     [state |-> "file", json |-> TRUE,
      content |-> [wellFormed |-> TRUE, parsed |-> JsonTree]]}

\* The documents checked against every glossary file and language.
OtherDocFiles ==
    JsonFiles \cup
    {[state |-> st, json |-> FALSE, content |-> <<>>] : st \in {"missing", "unreadable"}}

\* The glossary of the checks: the term T, written ab in ja, a being
\* forbidden there, and a term without forbidden variants.
TermT ==
    [canonical |-> "T", type |-> "noun",
     translations |-> [l \in {"ja", "en"} |-> IF l = "ja" THEN <<"a", "b">> ELSE <<"T">>],
     do_not_use |-> Some([l \in {"ja"} |-> <<<<"a">>, <<>>>>])]
TermU ==
    [canonical |-> "U", type |-> "noun",
     translations |-> [l \in {"en"} |-> <<"U">>],
     do_not_use |-> Null]

GlossaryValue(languages, terms) ==
    [kind |-> "map", version |-> 1, languages |-> languages, terms |-> terms]

CheckedGlossary ==
    Some([yaml |-> GlossaryValue(Some(<<"ja", "en">>), Some(<<TermT, TermU>>)),
          comments |-> FALSE])

\* Glossary files that do not load: none, a scalar, a mapping without terms,
\* one without languages.
BrokenGlossaryFiles ==
    {Null,
     Some([yaml |-> [kind |-> "scalar", version |-> 0, languages |-> Null, terms |-> Null],
           comments |-> FALSE]),
     Some([yaml |-> GlossaryValue(Some(<<"ja">>), Null), comments |-> FALSE]),
     Some([yaml |-> GlossaryValue(Null, Some(<<>>)), comments |-> FALSE])}

Languages == {"ja", "en", "zh"}

InitGlossaryCheck ==
    /\ \/ /\ docShape \in {Some(d) : d \in DocShapes}
          /\ docFile = MarkdownFile(TextOf(docShape[1], FALSE))
          /\ glossaryFile = CheckedGlossary
          /\ checkLang = "ja"
       \/ /\ docShape = Null
          /\ docFile \in OtherDocFiles
          /\ glossaryFile = CheckedGlossary
          /\ checkLang \in Languages
       \/ /\ docShape = Some([fm |-> Null, block |-> Null, segments |-> <<SegA>>])
          /\ docFile = MarkdownFile(TextOf(docShape[1], FALSE))
          /\ glossaryFile \in BrokenGlossaryFiles \cup {CheckedGlossary}
          /\ checkLang \in Languages
    /\ checkOutcome = Null
    /\ syncOutcome = Null /\ initForce = Null /\ initOutcome = Null
    /\ IdleFm /\ IdleCode /\ IdleChunk /\ IdleTf /\ IdleOv /\ IdleBatch /\ IdleOther

Check ==
    /\ checkOutcome = Null
    /\ checkOutcome' = Some(checkGlossary(docFile, glossaryFile, checkLang))
    /\ UNCHANGED <<glossaryFile, docFile, docShape, checkLang, syncOutcome, initForce,
                   initOutcome, fmVars, codeVars, chunkVars, tfVars, ovVars, batchVars, otherVars>>

SpecGlossary == InitGlossaryCheck /\ [][Check]_vars

\* ------------------------------------------------------ claims: checkGlossary

\* What a reader sees of the prose line.  A segment that follows a bare URL
\* with no space in between is part of that URL; the a of a prose segment and
\* of a link text is a visible occurrence of the forbidden variant a, which
\* the canonical translation ab never covers.
InBareUrl(segments, i) ==
    \E j \in 1..(i - 1) :
        /\ segments[j].kind = "url"
        /\ \A k \in (j + 1)..(i - 1) : segments[k].kind # "space"

VisibleOccurrences(shape) ==
    {i \in 1..Len(shape.segments) :
        /\ shape.segments[i].kind \in {"prose", "linktext"}
        /\ ~InBareUrl(shape.segments, i)}

\* checkGlossary has returned the issues of a prose document checked for ja
\* against the glossary of term T.
CheckedProse ==
    /\ checkOutcome # Null
    /\ docShape # Null
    /\ glossaryFile = CheckedGlossary
    /\ checkLang = "ja"

IssuesFor(word) == SelectSeq(checkOutcome[1].issues, LAMBDA issue : issue.forbidden = word)

\* The 1-based line of the prose line in the file.
ProseLineNumber(shape) ==
    1 + (IF shape.fm = Null THEN 0 ELSE 3) + (IF shape.block = Null THEN 0 ELSE 3)

C14_OneIssuePerOccurrence ==
    CheckedProse =>
        /\ checkOutcome[1].kind = "issues"
        /\ Len(IssuesFor(<<"a">>)) = Cardinality(VisibleOccurrences(docShape[1]))

\* C15: the line of every issue is the number, in the file, of a line that
\* holds the forbidden variant.
C15_LineOfOriginalFile ==
    CheckedProse =>
        LET lines == SplitLines(docFile.content)
        IN  \A k \in 1..Len(checkOutcome[1].issues) :
                LET issue == checkOutcome[1].issues[k]
                IN  /\ issue.line \in 1..Len(lines)
                    /\ IndexOf(lines[issue.line], issue.forbidden, 1) > 0

\* C16: a forbidden variant in the visible text of a body line is reported,
\* whatever else the line holds.
C16_VisibleOccurrenceReported ==
    (CheckedProse /\ VisibleOccurrences(docShape[1]) # {}) => IssuesFor(<<"a">>) # <<>>

\* C17: with a glossary that loads and a language it does not declare,
\* checkGlossary throws the configuration error and returns no issues, whatever
\* the document.
C17_UndeclaredLanguageIsError ==
    (/\ checkOutcome # Null
     /\ loadGlossary(glossaryFile).glossary # Null
     /\ \A i \in 1..Len(loadGlossary(glossaryFile).glossary[1].languages[1]) :
            loadGlossary(glossaryFile).glossary[1].languages[1][i] # checkLang)
    => checkOutcome[1] = Thrown("Language is not defined in glossary")

\* C17 witness: a document with a visible forbidden variant checked for zh,
\* which the glossary does not declare.
C17_Witness ==
    /\ checkOutcome # Null
    /\ glossaryFile = CheckedGlossary
    /\ checkLang = "zh"
    /\ docShape # Null
    /\ VisibleOccurrences(docShape[1]) # {}
    /\ checkOutcome[1].kind = "error"

\* --------------------------------------------- claims: hasUncoveredOccurrence

\* The canonical translation occurs in the line at some start s and holds the
\* forbidden word at offset p - s.
CoveredAt(line, p, word, canonical) ==
    /\ canonical # Null
    /\ \E start \in 1..p :
           /\ HasAt(line, start, canonical[1])
           /\ HasAt(canonical[1], p - start + 1, word)

\* C13: an occurrence of the forbidden variant at position p of the scanned
\* line is suppressed if and only if the canonical translation covers it
\* there; the line is reported exactly when it has an occurrence that is not
\* covered, whatever covered occurrences it has besides.
C13_OverlapSuppression ==
    ovResult # Null =>
        ovResult[1] =
            (/\ ovWord # <<>>
             /\ \E p \in 1..Len(ovLine) :
                    /\ HasAt(ovLine, p, ovWord)
                    /\ ~CoveredAt(ovLine, p, ovWord, ovCanonical))

\* C13 witness: a covered occurrence followed by one that is not covered, and
\* the line is reported.
C13_Witness ==
    /\ ovResult = Some(TRUE)
    /\ ovWord # <<>>
    /\ \E p, q \in 1..Len(ovLine) :
           /\ p < q
           /\ HasAt(ovLine, p, ovWord) /\ CoveredAt(ovLine, p, ovWord, ovCanonical)
           /\ HasAt(ovLine, q, ovWord) /\ ~CoveredAt(ovLine, q, ovWord, ovCanonical)

\* ------------------------------------------------------------ syncGlossary

\* The number of terms of a glossary file of the sync runs.
MaxSyncTerms == 2

\* !term.translations[lang]: the key is absent or holds the empty string.
IsFalsy(translation) == translation = Null \/ translation = Some(<<>>)

\* Mutant of SetTranslation: the translations are replaced by the one entry.
SetTranslationAlone(term, lang, value) ==
    [term EXCEPT !.translations = [l \in {lang} |-> value]]

\* term.translations[lang] = value
SetTranslation(term, lang, value) ==
    [term EXCEPT !.translations =
        [l \in DOMAIN term.translations \cup {lang} |->
            IF l = lang THEN value ELSE term.translations[l]]]

\* missingLangs of one term: the declared languages, in the order and as often
\* as the languages list names them, whose translation is falsy.
MissingLangs(term, languages) ==
    SelectSeq(languages, LAMBDA lang : IsFalsy(TranslationOf(term, lang)))

\* termsByLanguage[lang] of the terms given
TermsOfLanguage(terms, languages, lang) ==
    LET Times(term) == Len(SelectSeq(languages, LAMBDA l : l = lang))
                       - Len(SelectSeq(MissingLangs(term, languages), LAMBDA l : l = lang))
        Pushed[i \in 0..Len(terms)] ==
            IF i = 0 THEN <<>>
            ELSE Pushed[i - 1] \o [k \in 1..Times(terms[i]) |-> terms[i]]
    IN  Pushed[Len(terms)]

\* missingTranslations: one entry for every term with a missing language, in
\* the order of the terms.
MissingTranslations(terms, languages) ==
    LET lacking == SelectSeq(terms, LAMBDA term : MissingLangs(term, languages) # <<>>)
    IN  [i \in 1..Len(lacking) |->
            [canonical |-> lacking[i].canonical,
             missingLanguages |-> MissingLangs(lacking[i], languages)]]

\* The stub loop over the languages without the assignment.
StubLanguagesCountingOnly(term, languages, i) ==
    [term |-> term,
     stubs |-> Len(SelectSeq(SubSeq(languages, i, Len(languages)),
                             LAMBDA lang : IsFalsy(TranslationOf(term, lang))))]

\* The inner stub loop from language i on: a falsy translation is set to the
\* empty string and counted.
RECURSIVE StubLanguages(_, _, _)
StubLanguages(term, languages, i) ==
    IF i > Len(languages) THEN [term |-> term, stubs |-> 0]
    ELSE IF IsFalsy(TranslationOf(term, languages[i]))
    THEN LET rest == StubLanguages(SetTranslation(term, languages[i], <<>>), languages, i + 1)
         IN  [term |-> rest.term, stubs |-> rest.stubs + 1]
    ELSE StubLanguages(term, languages, i + 1)

\* The outer stub loop: the terms after it and stubsCreated.
StubTerms(terms, languages) ==
    LET Done[i \in 0..Len(terms)] ==
            IF i = 0 THEN [terms |-> <<>>, stubs |-> 0]
            ELSE LET one == StubLanguages(terms[i], languages, 1)
                 IN  [terms |-> Append(Done[i - 1].terms, one.term),
                      stubs |-> Done[i - 1].stubs + one.stubs]
    IN  Done[Len(terms)]

\* syncGlossary on a glossary file: the error thrown ("" when none is), the
\* result returned and the file it leaves.  The terms of termsByLanguage are
\* the objects of glossary.terms, so the result shows them with their stubs.
syncGlossary(file) ==
    LET loaded == loadGlossary(file)
    IN  IF loaded.error # ""
        THEN [error |-> loaded.error, result |-> Null, file |-> file]
        ELSE IF loaded.glossary = Null
        THEN [error |-> "Glossary file not found", result |-> Null, file |-> file]
        ELSE LET glossary  == loaded.glossary[1]
                 terms     == glossary.terms[1]
                 languages == glossary.languages[1]
                 missing   == MissingTranslations(terms, languages)
                 stubbed   == IF missing # <<>> THEN StubTerms(terms, languages)
                              ELSE [terms |-> terms, stubs |-> 0]
             IN  [error |-> "",
                  result |-> Some([totalTerms |-> Len(terms),
                                   termsByLanguage |->
                                       [lang \in {languages[i] : i \in 1..Len(languages)} |->
                                           TermsOfLanguage(stubbed.terms, languages, lang)],
                                   missingTranslations |-> missing,
                                   stubsCreated |-> stubbed.stubs]),
                  file |-> IF missing # <<>>
                           THEN Some(Stringify([glossary EXCEPT !.terms = Some(stubbed.terms)]))
                           ELSE file]

\* The glossary files of the sync runs: up to MaxSyncTerms terms, each with
\* any of ja and zh absent, empty or translated, under a languages list that
\* may name a language twice; and the files that do not load.
SyncTranslations ==
    UNION {[langs -> {<<>>, <<"a", "b">>}] : langs \in SUBSET {"ja", "zh"}}

SyncTerms ==
    {[canonical |-> "T", type |-> "noun", translations |-> tr, do_not_use |-> Null] :
        tr \in SyncTranslations}

SyncLanguages == {<<>>, <<"ja">>, <<"ja", "zh">>, <<"ja", "zh", "ja">>}

SyncGlossaryFiles ==
    {Some([yaml |-> GlossaryValue(Some(languages), Some(terms)), comments |-> TRUE]) :
        languages \in SyncLanguages,
        terms \in UNION {[1..k -> SyncTerms] : k \in 0..MaxSyncTerms}}

InitSync ==
    /\ glossaryFile \in SyncGlossaryFiles \cup BrokenGlossaryFiles
    /\ docFile = Null /\ docShape = Null /\ checkLang = Null /\ checkOutcome = Null
    /\ syncOutcome = Null /\ initForce = Null /\ initOutcome = Null
    /\ IdleFm /\ IdleCode /\ IdleChunk /\ IdleTf /\ IdleOv /\ IdleBatch /\ IdleOther

Sync ==
    /\ syncOutcome = Null
    /\ LET done == syncGlossary(glossaryFile)
       IN  /\ syncOutcome' = Some([error |-> done.error, result |-> done.result])
           /\ glossaryFile' = done.file
    /\ UNCHANGED <<docFile, docShape, checkLang, checkOutcome, initForce, initOutcome,
                   fmVars, codeVars, chunkVars, tfVars, ovVars, batchVars, otherVars>>

SpecSync == InitSync /\ [][Sync]_vars

\* ------------------------------------------------------- claims: syncGlossary

\* A (term, language) pair of a loaded glossary lacks a translation: the
\* language is declared and the term has no non-empty entry for it.
LacksTranslation(term, lang) ==
    lang \notin DOMAIN term.translations \/ term.translations[lang] = <<>>

Declared(glossary) == {glossary.languages[1][i] : i \in 1..Len(glossary.languages[1])}

RECURSIVE ListedPairs(_)
ListedPairs(missing) ==
    IF missing = <<>> THEN 0
    ELSE Len(Head(missing).missingLanguages) + ListedPairs(Tail(missing))

\* C18: a sync of a glossary in which some term lacks the translation of a
\* declared language writes the file so that, loaded again, it has the same
\* languages and terms, every term has an entry for every declared language,
\* every entry the term lacked is the empty string and every other entry is
\* as it was; and stubsCreated is the number of (term, language) pairs that
\* missingTranslations lists.
C18_SyncPersistsStubs ==
    [][(/\ syncOutcome = Null
        /\ syncOutcome' # Null
        /\ loadGlossary(glossaryFile).error = ""
        /\ loadGlossary(glossaryFile).glossary # Null
        /\ LET before == loadGlossary(glossaryFile).glossary[1]
           IN  \E k \in 1..Len(before.terms[1]) : \E lang \in Declared(before) :
                   LacksTranslation(before.terms[1][k], lang))
       => LET before   == loadGlossary(glossaryFile).glossary[1]
              reloaded == loadGlossary(glossaryFile')
              synced   == syncOutcome'[1]
          IN  /\ synced.error = ""
              /\ reloaded.error = ""
              /\ reloaded.glossary # Null
              /\ reloaded.glossary[1].languages = before.languages
              /\ Len(reloaded.glossary[1].terms[1]) = Len(before.terms[1])
              /\ \A k \in 1..Len(before.terms[1]) :
                     LET old == before.terms[1][k]
                         new == reloaded.glossary[1].terms[1][k]
                     IN  /\ new.canonical = old.canonical
                         /\ DOMAIN new.translations =
                                DOMAIN old.translations \cup Declared(before)
                         /\ \A lang \in DOMAIN new.translations :
                                new.translations[lang] =
                                    IF lang \in DOMAIN old.translations
                                    THEN old.translations[lang]
                                    ELSE <<>>
              /\ synced.result[1].stubsCreated =
                     ListedPairs(synced.result[1].missingTranslations)
              /\ synced.result[1].stubsCreated > 0]_vars

\* C18 witness: a sync has written stubs for two terms, one of which had a
\* translation in another language, and the file on disk holds them.
C18_Witness ==
    /\ syncOutcome # Null
    /\ syncOutcome[1].error = ""
    /\ syncOutcome[1].result[1].stubsCreated = 3
    /\ Len(syncOutcome[1].result[1].missingTranslations) = 2
    /\ glossaryFile # Null
    /\ glossaryFile[1].comments = FALSE
    /\ LET terms == Parse(glossaryFile[1]).terms[1]
       IN  /\ Len(terms) = 2
           /\ terms[1].translations = [l \in {"ja", "zh"} |-> <<>>]
           /\ terms[2].translations =
                  [l \in {"ja", "zh"} |-> IF l = "ja" THEN <<"a", "b">> ELSE <<>>]

\* ------------------------------------------------------------ initGlossary

\* SKELETON_TEMPLATE: the text of the skeleton, held as the value it stands
\* for and the comments it carries.  The two forbidden variants of the worked
\* example are the full-width spelling and the hiragana spelling of API, each
\* character written here as a token.
SKELETON_TEMPLATE ==
    [yaml |->
        [kind |-> "map", version |-> 1,
         languages |-> Some(<<"ja", "en">>),
         terms |-> Some(<<
             [canonical |-> "API", type |-> "noun",
              translations |-> [l \in {"ja", "en"} |-> <<"A", "P", "I">>],
              do_not_use |-> Some([l \in {"ja"} |->
                  << <<"fullwidthA", "fullwidthP", "fullwidthI">>,
                     <<"hiraganaE", "longmark", "hiraganaPi", "longmark",
                       "hiraganaA", "hiraganaI">> >>])] >>)],
     comments |-> TRUE]

\* existsSync(outputPath)
ExistsSync(file) == file # Null

\* initGlossary without the test of the existing file.
initGlossaryAlwaysWriting(file, force) ==
    [error |-> "", file |-> Some(SKELETON_TEMPLATE)]

\* initGlossary(outputPath, force) on the file at outputPath (Null when there
\* is none), force being Null when the argument is not given: the error thrown
\* ("" when none is) and the file it leaves.
initGlossary(file, force) ==
    IF ExistsSync(file) /\ ~(force = Some(TRUE))
    THEN [error |-> "Glossary file already exists", file |-> file]
    ELSE [error |-> "", file |-> Some(SKELETON_TEMPLATE)]

\* The runs of init: no file, a file that is no glossary, a glossary of the
\* checks or of the sync runs; force not given, false or true.
InitGlossaryInit ==
    /\ glossaryFile \in BrokenGlossaryFiles \cup {CheckedGlossary} \cup SyncGlossaryFiles
    /\ initForce \in {Null, Some(FALSE), Some(TRUE)}
    /\ initOutcome = Null
    /\ docFile = Null /\ docShape = Null /\ checkLang = Null /\ checkOutcome = Null
    /\ syncOutcome = Null
    /\ IdleFm /\ IdleCode /\ IdleChunk /\ IdleTf /\ IdleOv /\ IdleBatch /\ IdleOther

InitFile ==
    /\ initOutcome = Null
    /\ LET done == initGlossary(glossaryFile, initForce)
       IN  /\ initOutcome' = Some([error |-> done.error])
           /\ glossaryFile' = done.file
    /\ UNCHANGED <<docFile, docShape, checkLang, checkOutcome, syncOutcome, initForce,
                   fmVars, codeVars, chunkVars, tfVars, ovVars, batchVars, otherVars>>

SpecInitGlossary == InitGlossaryInit /\ [][InitFile]_vars

\* ------------------------------------------------------- claims: initGlossary

\* A glossary that loadGlossary returns is valid: languages and terms are
\* lists, and every term is translated into every declared language.
IsValidGlossary(loaded) ==
    /\ loaded.error = ""
    /\ loaded.glossary # Null
    /\ loaded.glossary[1].version = 1
    /\ loaded.glossary[1].languages # Null
    /\ loaded.glossary[1].terms # Null
    /\ \A k \in 1..Len(loaded.glossary[1].terms[1]) :
           \A lang \in Declared(loaded.glossary[1]) :
               ~LacksTranslation(loaded.glossary[1].terms[1][k], lang)

\* C19: init on an existing file without force ends in the error and leaves
\* the file as it was; with force, or with no file there, it ends without an
\* error, the file is the skeleton, and loadGlossary returns a valid glossary
\* for it.
C19_InitRefusesToOverwrite ==
    [][(initOutcome = Null /\ initOutcome' # Null) =>
          IF glossaryFile # Null /\ initForce # Some(TRUE)
          THEN /\ initOutcome'[1].error = "Glossary file already exists"
               /\ glossaryFile' = glossaryFile
          ELSE /\ initOutcome'[1].error = ""
               /\ glossaryFile' = Some(SKELETON_TEMPLATE)
               /\ IsValidGlossary(loadGlossary(glossaryFile'))]_vars

\* C19 witness: init without force has refused, and the glossary that was
\* there is still there.
C19_Witness ==
    /\ initOutcome # Null
    /\ initOutcome[1].error = "Glossary file already exists"
    /\ initForce = Null
    /\ glossaryFile = CheckedGlossary

\* ========================================================== batchTranslate

\* The number of files a pattern matches in the batch runs.
MaxBatchFiles == 3

\* matchedFiles of a pattern that matches n files: fast-glob returns every
\* file once.
MatchedFiles(n) == SubSeq(<<"a.md", "b.md", "c.md", "d.md", "e.md">>, 1, n)

\* What the iteration of one file will meet: nothing, mkdirSync throwing, or
\* translateFile rejecting; message is the text of what is thrown.
Fates ==
    {[kind |-> "ok", message |-> ""],
     [kind |-> "mkdir", message |-> "EACCES"],
     [kind |-> "reject", message |-> "Input file is empty"]}

BatchOptions ==
    UNION {{[matchedFiles |-> MatchedFiles(n), fates |-> fates, dryRun |-> dryRun,
             onProgress |-> onProgress] :
               fates \in [1..n -> Fates], dryRun \in BOOLEAN, onProgress \in BOOLEAN} :
           n \in 0..MaxBatchFiles}

\* The catch block without the count of the failure.
FailedUncounted(progress, errors, inputPath, errorMsg) ==
    [progress |-> progress,
     errors |-> Append(errors, [file |-> inputPath, error |-> errorMsg])]

\* The catch block: errors.push({ file, error }); progress.failed++
Failed(progress, errors, inputPath, errorMsg) ==
    [progress |-> [progress EXCEPT !.failed = @ + 1],
     errors |-> Append(errors, [file |-> inputPath, error |-> errorMsg])]

\* progress.succeeded++
Succeeded(progress) == [progress EXCEPT !.succeeded = @ + 1]

\* onProgress called twice for a file.
ReportedTwice(reports, progress) ==
    IF batchOpts[1].onProgress THEN reports \o <<progress, progress>> ELSE reports

\* if (onProgress) onProgress(progress): the reports made so far with what
\* this call shows.
Reported(reports, progress) ==
    IF batchOpts[1].onProgress THEN Append(reports, progress) ELSE reports

InitBatch ==
    /\ batchOpts \in {Some(o) : o \in BatchOptions}
    /\ batchPc = "match"
    /\ batchIndex = 0
    /\ batchProgress = Null
    /\ batchErrors = <<>> /\ batchAttempts = <<>> /\ batchCalls = <<>>
    /\ batchReports = <<>> /\ batchResult = Null
    /\ IdleFm /\ IdleCode /\ IdleChunk /\ IdleTf /\ IdleGl /\ IdleOv /\ IdleOther

\* await fg(pattern): no match is an error, otherwise the progress starts.
Match ==
    /\ batchPc = "match"
    /\ IF batchOpts[1].matchedFiles = <<>>
       THEN /\ batchPc' = "thrown"
            /\ batchResult' = Some([error |-> "No files matched pattern"])
            /\ UNCHANGED batchProgress
       ELSE /\ batchPc' = "loop"
            /\ batchProgress' =
                   Some([total |-> Len(batchOpts[1].matchedFiles), current |-> 0,
                         succeeded |-> 0, failed |-> 0, skipped |-> 0])
            /\ UNCHANGED batchResult
    /\ UNCHANGED <<batchOpts, batchIndex, batchErrors, batchAttempts, batchCalls,
                   batchReports, fmVars, codeVars, chunkVars, tfVars, glVars, ovVars, otherVars>>

\* One iteration of a dry run: the file is shown and counted as succeeded.
WouldTranslate ==
    /\ batchPc = "loop"
    /\ batchIndex < Len(batchOpts[1].matchedFiles)
    /\ batchOpts[1].dryRun
    /\ LET inputPath == batchOpts[1].matchedFiles[batchIndex + 1]
           progress  == Succeeded([batchProgress[1] EXCEPT !.current = batchIndex + 1])
       IN  /\ batchAttempts' = Append(batchAttempts, inputPath)
           /\ batchProgress' = Some(progress)
           /\ batchReports' = Reported(batchReports, progress)
    /\ batchIndex' = batchIndex + 1
    /\ UNCHANGED <<batchOpts, batchPc, batchErrors, batchCalls, batchResult,
                   fmVars, codeVars, chunkVars, tfVars, glVars, ovVars, otherVars>>

\* The iteration of a file up to the call of translateFile, where mkdirSync
\* does not throw.
Translate ==
    /\ batchPc = "loop"
    /\ batchIndex < Len(batchOpts[1].matchedFiles)
    /\ ~batchOpts[1].dryRun
    /\ batchOpts[1].fates[batchIndex + 1].kind # "mkdir"
    /\ LET inputPath == batchOpts[1].matchedFiles[batchIndex + 1]
       IN  /\ batchAttempts' = Append(batchAttempts, inputPath)
           /\ batchCalls' = Append(batchCalls, inputPath)
    /\ batchProgress' = Some([batchProgress[1] EXCEPT !.current = batchIndex + 1])
    /\ batchPc' = "translating"
    /\ UNCHANGED <<batchOpts, batchIndex, batchErrors, batchReports, batchResult,
                   fmVars, codeVars, chunkVars, tfVars, glVars, ovVars, otherVars>>

\* The iteration of a file whose output directory cannot be made: the catch
\* block runs and translateFile is not called.
MkdirThrows ==
    /\ batchPc = "loop"
    /\ batchIndex < Len(batchOpts[1].matchedFiles)
    /\ ~batchOpts[1].dryRun
    /\ batchOpts[1].fates[batchIndex + 1].kind = "mkdir"
    /\ LET inputPath == batchOpts[1].matchedFiles[batchIndex + 1]
           failed    == Failed([batchProgress[1] EXCEPT !.current = batchIndex + 1],
                               batchErrors, inputPath,
                               batchOpts[1].fates[batchIndex + 1].message)
       IN  /\ batchAttempts' = Append(batchAttempts, inputPath)
           /\ batchProgress' = Some(failed.progress)
           /\ batchErrors' = failed.errors
           /\ batchReports' = Reported(batchReports, failed.progress)
    /\ batchIndex' = batchIndex + 1
    /\ UNCHANGED <<batchOpts, batchPc, batchCalls, batchResult,
                   fmVars, codeVars, chunkVars, tfVars, glVars, ovVars, otherVars>>

\* translateFile resolves: the file is counted as succeeded.
TranslateResolves ==
    /\ batchPc = "translating"
    /\ batchOpts[1].fates[batchIndex + 1].kind = "ok"
    /\ LET progress == Succeeded(batchProgress[1])
       IN  /\ batchProgress' = Some(progress)
           /\ batchReports' = Reported(batchReports, progress)
    /\ batchIndex' = batchIndex + 1
    /\ batchPc' = "loop"
    /\ UNCHANGED <<batchOpts, batchErrors, batchAttempts, batchCalls, batchResult,
                   fmVars, codeVars, chunkVars, tfVars, glVars, ovVars, otherVars>>

\* translateFile rejects: the catch block runs and the loop goes on.
TranslateRejects ==
    /\ batchPc = "translating"
    /\ batchOpts[1].fates[batchIndex + 1].kind = "reject"
    /\ LET failed == Failed(batchProgress[1], batchErrors,
                            batchOpts[1].matchedFiles[batchIndex + 1],
                            batchOpts[1].fates[batchIndex + 1].message)
       IN  /\ batchProgress' = Some(failed.progress)
           /\ batchErrors' = failed.errors
           /\ batchReports' = Reported(batchReports, failed.progress)
    /\ batchIndex' = batchIndex + 1
    /\ batchPc' = "loop"
    /\ UNCHANGED <<batchOpts, batchAttempts, batchCalls, batchResult,
                   fmVars, codeVars, chunkVars, tfVars, glVars, ovVars, otherVars>>

\* After the last file: the summary and the result.
ReturnBatch ==
    /\ batchPc = "loop"
    /\ batchIndex = Len(batchOpts[1].matchedFiles)
    /\ batchResult' = Some([error |-> "",
                            total |-> batchProgress[1].total,
                            succeeded |-> batchProgress[1].succeeded,
                            failed |-> batchProgress[1].failed,
                            errors |-> batchErrors])
    /\ batchPc' = "done"
    /\ UNCHANGED <<batchOpts, batchIndex, batchProgress, batchErrors, batchAttempts,
                   batchCalls, batchReports, fmVars, codeVars, chunkVars, tfVars,
                   glVars, ovVars, otherVars>>

NextBatch ==
    \/ Match
    \/ WouldTranslate
    \/ Translate
    \/ MkdirThrows
    \/ TranslateResolves
    \/ TranslateRejects
    \/ ReturnBatch

SpecBatch == InitBatch /\ [][NextBatch]_vars

\* ----------------------------------------------------- claims: batchTranslate

\* The entries the error list is to hold for the first n matched files: one
\* for every file whose directory cannot be made or whose translation is
\* rejected, in the order of the files; none in a dry run.
RECURSIVE ExpectedErrors(_, _)
ExpectedErrors(opts, n) ==
    IF n = 0 THEN <<>>
    ELSE IF ~opts.dryRun /\ opts.fates[n].kind # "ok"
    THEN Append(ExpectedErrors(opts, n - 1),
                [file |-> opts.matchedFiles[n], error |-> opts.fates[n].message])
    ELSE ExpectedErrors(opts, n - 1)

\* C20: at every point of a batch the files gone to are the first matched
\* files, each once and in order, whatever the earlier files met; and the
\* batch of a pattern that matches returns with every matched file gone to
\* once, translateFile called once for every file whose directory could be
\* made, succeeded + failed = total = the number of matched files, and the
\* error list holding one entry for every failed file, in file order.
C20_BatchContinuesPastFailure ==
    batchOpts # Null =>
        LET opts == batchOpts[1]
        IN  /\ Len(batchAttempts) <= Len(opts.matchedFiles)
            /\ batchAttempts = SubSeq(opts.matchedFiles, 1, Len(batchAttempts))
            /\ batchPc = "done" =>
                   /\ batchAttempts = opts.matchedFiles
                   /\ batchCalls =
                          IF opts.dryRun THEN <<>>
                          ELSE SelectSeq(opts.matchedFiles,
                                   LAMBDA f : \E i \in 1..Len(opts.matchedFiles) :
                                       /\ opts.matchedFiles[i] = f
                                       /\ opts.fates[i].kind # "mkdir")
                   /\ batchResult[1].error = ""
                   /\ batchResult[1].total = Len(opts.matchedFiles)
                   /\ batchResult[1].succeeded + batchResult[1].failed
                          = batchResult[1].total
                   /\ batchResult[1].errors = ExpectedErrors(opts, Len(opts.matchedFiles))
                   /\ batchResult[1].failed = Len(batchResult[1].errors)

\* C20 witness: a batch of three files has returned; the first was rejected,
\* the directory of the second could not be made, the third was translated.
C20_Witness ==
    /\ batchPc = "done"
    /\ batchResult # Null
    /\ batchResult[1].total = 3
    /\ batchResult[1].succeeded = 1
    /\ batchResult[1].failed = 2
    /\ batchResult[1].errors =
           <<[file |-> "a.md", error |-> "Input file is empty"],
             [file |-> "b.md", error |-> "EACCES"]>>
    /\ batchCalls = <<"a.md", "c.md">>

\* C21: the files of a batch are taken one at a time in matched order: while
\* translateFile runs on a file every earlier file has been counted as
\* succeeded or failed, translateFile has been called on no later file, and
\* the progress line and the onProgress call of file k show current = k of
\* total = N, once for every file.
C21_FilesInOrderOneAtATime ==
    (batchOpts # Null /\ batchProgress # Null) =>
        LET opts     == batchOpts[1]
            progress == batchProgress[1]
            inFlight == IF batchPc = "translating" THEN 1 ELSE 0
        IN  /\ progress.total = Len(opts.matchedFiles)
            /\ progress.succeeded + progress.failed = batchIndex
            /\ Len(batchAttempts) = batchIndex + inFlight
            /\ progress.current = Len(batchAttempts)
            /\ batchAttempts = SubSeq(opts.matchedFiles, 1, Len(batchAttempts))
            /\ batchPc = "translating" =>
                   /\ batchCalls # <<>>
                   /\ batchCalls[Len(batchCalls)] = opts.matchedFiles[batchIndex + 1]
                   /\ \A k \in 1..(Len(batchCalls) - 1) :
                          \E i \in 1..batchIndex : opts.matchedFiles[i] = batchCalls[k]
            /\ Len(batchReports) = IF opts.onProgress THEN batchIndex ELSE 0
            /\ \A k \in 1..Len(batchReports) :
                   /\ batchReports[k].current = k
                   /\ batchReports[k].total = Len(opts.matchedFiles)
                   /\ batchReports[k].succeeded + batchReports[k].failed = k
            /\ batchPc = "done" => batchIndex = Len(opts.matchedFiles)

\* C21 witness: the second of three files is being translated after the first
\* failed, and one progress report, of the first file, has been made.
C21_Witness ==
    /\ batchPc = "translating"
    /\ batchIndex = 1
    /\ batchOpts[1].onProgress
    /\ Len(batchOpts[1].matchedFiles) = 3
    /\ batchProgress[1].failed = 1
    /\ batchProgress[1].current = 2
    /\ Len(batchReports) = 1
    /\ batchCalls = <<"a.md", "b.md">>

\* ===================================================== output paths of a batch

\* The number of files a pattern matches in the runs of the output paths.
MaxMatched == 3

\* String.prototype.split(c): the parts of s between the characters c.
RECURSIVE SplitOn(_, _, _)
SplitOn(s, c, i) ==
    LET at == {j \in i..Len(s) : s[j] = c}
    IN  IF at = {} THEN <<Slice(s, i, Len(s))>>
        ELSE <<Slice(s, i, Min(at) - 1)>> \o SplitOn(s, c, Min(at) + 1)

\* Array.prototype.join("/")
RECURSIVE JoinSlash(_)
JoinSlash(parts) ==
    IF parts = <<>> THEN <<>>
    ELSE IF Len(parts) = 1 THEN parts[1]
    ELSE parts[1] \o <<"/">> \o JoinSlash(Tail(parts))

\* The segments of a relative path as the path module normalizes them: empty
\* segments and "." are dropped, ".." removes the segment before it and stays
\* when there is none.
RECURSIVE NormalizedFrom(_, _, _)
NormalizedFrom(segments, i, done) ==
    IF i > Len(segments) THEN done
    ELSE IF segments[i] = <<>> \/ segments[i] = <<".">> THEN NormalizedFrom(segments, i + 1, done)
    ELSE IF segments[i] = <<".", ".">> /\ done # <<>> /\ done[Len(done)] # <<".", ".">>
    THEN NormalizedFrom(segments, i + 1, SubSeq(done, 1, Len(done) - 1))
    ELSE NormalizedFrom(segments, i + 1, Append(done, segments[i]))

Normalized(path) == NormalizedFrom(SplitOn(path, "/", 1), 1, <<>>)

\* path.join(a, b) of relative paths
PathJoin(a, b) ==
    LET segments == Normalized(a \o <<"/">> \o b)
    IN  IF segments = <<>> THEN <<".">> ELSE JoinSlash(segments)

\* path.dirname(p) of a relative path
Dirname(p) ==
    LET slashes == {j \in 1..Len(p) : p[j] = "/"}
    IN  IF slashes = {} THEN <<".">> ELSE Slice(p, 1, Max(slashes) - 1)

\* path.relative(from, to) of two relative paths, both resolved against the
\* working directory
PathRelative(from, to) ==
    LET f == Normalized(from)
        t == Normalized(to)
        same == {k \in 0..Len(f) : k <= Len(t) /\ SubSeq(f, 1, k) = SubSeq(t, 1, k)}
        c == Max(same)
    IN  JoinSlash([k \in 1..(Len(f) - c) |-> <<".", ".">>] \o SubSeq(t, c + 1, Len(t)))

\* /[*?[\]{}]/
IsGlobChar(c) == c \in {"*", "?", "[", "]", "{", "}"}

\* pattern.split(/[*?[\]{}]/)[0]
StaticPrefix(pattern) ==
    LET globs == {j \in 1..Len(pattern) : IsGlobChar(pattern[j])}
    IN  IF globs = {} THEN pattern ELSE Slice(pattern, 1, Min(globs) - 1)

\* The reduce over the directories of the matched files from directory i on.
RECURSIVE CommonDir(_, _, _)
CommonDir(dirs, i, acc) ==
    IF i > Len(dirs) THEN acc
    ELSE LET accParts == SplitOn(acc, "/", 1)
             dirParts == SplitOn(dirs[i], "/", 1)
             shorter  == IF Len(accParts) < Len(dirParts) THEN Len(accParts) ELSE Len(dirParts)
             agree    == {k \in 0..shorter : \A j \in 1..k : accParts[j] = dirParts[j]}
             common   == JoinSlash(SubSeq(accParts, 1, Max(agree)))
         IN  CommonDir(dirs, i + 1, IF common = <<>> THEN <<".">> ELSE common)

\* determineInputBase(pattern, matchedFiles): Null for undefined.
determineInputBase(pattern, matchedFiles) ==
    LET staticPrefix == StaticPrefix(pattern)
    IN  IF staticPrefix # <<>> /\ \E j \in 1..Len(staticPrefix) : staticPrefix[j] = "/"
        THEN Some(IF staticPrefix[Len(staticPrefix)] = "/"
                  THEN SubSeq(staticPrefix, 1, Len(staticPrefix) - 1)
                  ELSE staticPrefix)
        ELSE IF matchedFiles = <<>> THEN Null
        ELSE LET dirs      == [i \in 1..Len(matchedFiles) |-> Dirname(matchedFiles[i])]
                 commonDir == CommonDir(dirs, 2, dirs[1])
             IN  IF commonDir = <<".">> THEN Null ELSE Some(commonDir)

\* generateOutputPath without explicitOutput, which a batch never gives.
generateOutputPath(inputPath, targetLang, outputDir, inputBase) ==
    IF outputDir # Null /\ outputDir # Some(<<>>) /\ inputBase # Null /\ inputBase # Some(<<>>)
    THEN PathJoin(outputDir[1], PathRelative(inputBase[1], inputPath))
    ELSE LET slashes == {j \in 1..Len(inputPath) : inputPath[j] = "/"}
             dir  == IF slashes = {} THEN <<>> ELSE Slice(inputPath, 1, Max(slashes) - 1)
             file == IF slashes = {} THEN inputPath
                     ELSE Slice(inputPath, Max(slashes) + 1, Len(inputPath))
             dots == {j \in 2..Len(file) : file[j] = "."}
             base == IF dots = {} THEN file ELSE Slice(file, 1, Max(dots) - 1)
             ext  == IF dots = {} THEN <<>> ELSE Slice(file, Max(dots), Len(file))
         IN  PathJoin(dir, base \o <<".">> \o targetLang \o ext)

\* The output paths batchTranslate computes for its matched files.
OutputPaths(opts) ==
    LET inputBase == IF opts.outputDir # Null /\ opts.outputDir # Some(<<>>)
                     THEN determineInputBase(opts.pattern, opts.matchedFiles)
                     ELSE Null
    IN  [i \in 1..Len(opts.matchedFiles) |->
            generateOutputPath(opts.matchedFiles[i], opts.targetLang, opts.outputDir,
                               inputBase)]

\* Patterns and the files of the working directory that each can match.
PathScenarios ==
    {[pattern |-> <<"d", "/", "e", "/", "*", "*", "/", "*", ".", "m">>, candidates |-> << <<"d", "/", "e", "/", "a", ".", "m">>, <<"d", "/", "e", "/", "g", "/", "b", ".", "m">> >>],
     [pattern |-> <<"d", "/", "e", "*", "/", "*", ".", "m">>, candidates |-> << <<"d", "/", "e", "/", "a", ".", "m">>, <<"d", "/", "e", "e", "/", "a", ".", "m">> >>],
     [pattern |-> <<"*", ".", "m">>, candidates |-> << <<"a", ".", "m">>, <<"b", ".", "m">> >>],
     [pattern |-> <<"*", "*", "/", "*", ".", "m">>, candidates |-> << <<"a", ".", "m">>, <<"d", "/", "a", ".", "m">>, <<"d", "/", "e", "/", "a", ".", "m">>, <<"g", "/", "b", ".", "m">> >>],
     [pattern |-> <<"d", "/", "*", ".", "m">>, candidates |-> << <<"d", "/", "a", ".", "m">>, <<"d", "/", "b", ".", "m">> >>]}

\* The sequences of up to MaxMatched of the candidates, in their order.
MatchedAmong(candidates) ==
    {SelectSeq(candidates, LAMBDA f : f \in chosen) :
        chosen \in {c \in SUBSET {candidates[i] : i \in 1..Len(candidates)} :
                        c # {} /\ Cardinality(c) <= MaxMatched}}

OutputDirs == {Null, Some(<<"o">>), Some(<<"d", "/", "o">>), Some(<<"o", "/">>)}

InitPaths ==
    /\ pathOpts \in {Some([pattern |-> sc.pattern, matchedFiles |-> matched,
                           outputDir |-> dir, targetLang |-> <<"j", "a">>]) :
                        sc \in PathScenarios, dir \in OutputDirs,
                        matched \in UNION {MatchedAmong(x.candidates) : x \in PathScenarios}}
    /\ \E sc \in PathScenarios :
           /\ sc.pattern = pathOpts[1].pattern
           /\ pathOpts[1].matchedFiles \in MatchedAmong(sc.candidates)
    /\ pathOutputs = Null
    /\ IdleFm /\ IdleCode /\ IdleChunk /\ IdleTf /\ IdleGl /\ IdleOv /\ IdleBatch
    /\ IdlePrompt /\ syncRuns = 0

ComputePaths ==
    /\ pathOutputs = Null
    /\ pathOutputs' = Some(OutputPaths(pathOpts[1]))
    /\ UNCHANGED <<pathOpts, fmVars, codeVars, chunkVars, tfVars, glVars, ovVars, batchVars,
                   promptVars, syncRuns>>

SpecPaths == InitPaths /\ [][ComputePaths]_vars

\* ------------------------------------------------------- claims: output paths

\* A path lies under a directory: normalized, it starts with the segments of
\* the directory, goes on, and never steps up.
LiesUnder(path, dir) ==
    LET p == Normalized(path)
        d == Normalized(dir)
    IN  /\ Len(p) > Len(d)
        /\ SubSeq(p, 1, Len(d)) = d
        /\ \A k \in 1..Len(p) : p[k] # <<".", ".">>

\* C22: with an output directory, every output path lies under the output
\* directory, and two matched files never get the same output path.
C22_OutputsUnderOutputDir ==
    (pathOutputs # Null /\ pathOpts[1].outputDir # Null) =>
        /\ \A i \in 1..Len(pathOutputs[1]) :
               LiesUnder(pathOutputs[1][i], pathOpts[1].outputDir[1])
        /\ \A i, k \in 1..Len(pathOutputs[1]) :
               pathOutputs[1][i] = pathOutputs[1][k] => i = k

\* ===================================================== the glossary in the prompt

\* ------------------------------------------------------ buildGlossaryPrompt

\* term.do_not_use?.[targetLang] is truthy: the key is there, with whatever list.
HasForbiddenKey(term, lang) ==
    term.do_not_use # Null /\ lang \in DOMAIN term.do_not_use[1]

\* The filter of relevantTerms.
IsRelevant(term, targetLang) ==
    ~IsFalsy(TranslationOf(term, targetLang)) \/ HasForbiddenKey(term, targetLang)

\* The rendering the claims expect: the translation when one is set and not
\* empty, the canonical term otherwise.
RenderingOrCanonical(term, targetLang) ==
    IF IsFalsy(TranslationOf(term, targetLang)) THEN <<term.canonical>>
    ELSE term.translations[targetLang]

\* term.translations[targetLang] ?? term.canonical: the canonical term, held
\* as one token, stands in only when the key is absent.
Rendering(term, targetLang) ==
    IF TranslationOf(term, targetLang) = Null THEN <<term.canonical>>
    ELSE term.translations[targetLang]

\* buildGlossaryPrompt(glossaryConfig, targetLang): the lines it joins, none
\* for the empty string.  A term line is held as what it names, the rendering
\* it prescribes and the variants it forbids.
buildGlossaryPrompt(glossaryConfig, targetLang) ==
    LET relevantTerms == SelectSeq(glossaryConfig.terms[1],
                                   LAMBDA t : IsRelevant(t, targetLang))
    IN  IF relevantTerms = <<>> THEN <<>>
        ELSE <<[kind |-> "blank"], [kind |-> "header"]>>
             \o [i \in 1..Len(relevantTerms) |->
                    [kind |-> "term",
                     canonical |-> relevantTerms[i].canonical,
                     rendering |-> Rendering(relevantTerms[i], targetLang),
                     forbidden |-> ForbiddenOf(relevantTerms[i], targetLang)]]

\* ------------------------------------------- translateFile with a glossaryConfig

\* translateFile reads provider, inputPath, targetLang and templateContent of
\* its options (translate.ts:191) and nothing else: a glossaryConfig among
\* them changes no step of it.  The runs: a missing file, a file of one
\* chunk without and with a code span, a file of several chunks, a file whose
\* body is one line of blanks longer than CHUNK_SIZE after a frontmatter
\* block; no glossaryConfig, the glossary of the checks, the skeleton, one
\* without terms.
PromptInputFiles ==
    {[state |-> "missing", content |-> <<>>],
     [state |-> "file", content |-> <<"a", NL>>],
     [state |-> "file", content |-> <<"a", BT, "a", BT, NL>>],
     [state |-> "file", content |-> <<"a", NL, "a", NL, "a", NL, "a", NL>>],
     [state |-> "file",
      content |-> <<"-", "-", "-", NL, "a", NL, "-", "-", "-", NL>>
                  \o [i \in 1..(CHUNK_SIZE + 1) |-> " "]]}

PromptGlossaries ==
    {Null, Some(Parse(CheckedGlossary[1])), Some(Parse(SKELETON_TEMPLATE)),
     Some(GlossaryValue(Some(<<"ja">>), Some(<<>>)))}

InitTranslateWithGlossary ==
    /\ IdleFm /\ IdleCode /\ IdleChunk /\ IdleGl /\ IdleOv /\ IdleBatch /\ IdlePath
    /\ syncRuns = 0
    /\ promptGlossary \in PromptGlossaries
    /\ promptLang \in Languages
    /\ promptLines = Null
    /\ inputFile \in PromptInputFiles
    /\ outputFile = Null
    /\ madeDir = FALSE
    /\ pc = "idle"
    /\ frontmatter = Null
    /\ protectedBody = <<>>
    /\ codeMap = <<>>
    /\ chunks = <<>>
    /\ translatedParts = <<>>
    /\ totalUsage = ZeroUsage
    /\ requests = <<>>
    /\ replies = <<>>
    /\ rejections = 0
    /\ outcome = [kind |-> "pending", error |-> "", usage |-> ZeroUsage, chunks |-> 0]

SpecTranslateWithGlossary == InitTranslateWithGlossary /\ [][Next]_vars

\* ------------------------------------------ claims: the glossary in the prompt

\* The sections of a system message: the template, and the note on the
\* placeholders when it is appended.  buildPrompt appends nothing else.
SystemSections(system) ==
    <<[kind |-> "template"]>>
    \o (IF system.placeholderNote THEN <<[kind |-> "placeholder note"]>> ELSE <<>>)

HasSection(system, line) ==
    \E k \in 1..Len(SystemSections(system)) : SystemSections(system)[k] = line

\* C23: with a glossaryConfig, the system message of every request holds the
\* line of every term relevant to the target language, with its canonical
\* translation and its forbidden variants; with none, it holds no glossary
\* header and no term line.
C23_GlossaryInEveryRequest ==
    \A r \in 1..Len(requests) :
        IF promptGlossary = Null
        THEN \A k \in 1..Len(SystemSections(requests[r].system)) :
                 SystemSections(requests[r].system)[k].kind \notin {"header", "term"}
        ELSE \A t \in 1..Len(promptGlossary[1].terms[1]) :
                 LET term == promptGlossary[1].terms[1][t]
                 IN  IsRelevant(term, promptLang) =>
                         HasSection(requests[r].system,
                                    [kind |-> "term", canonical |-> term.canonical,
                                     rendering |-> RenderingOrCanonical(term, promptLang),
                                     forbidden |-> ForbiddenOf(term, promptLang)])

\* ---------------------------------------- claims: the lines of the chunks

\* The lines a chunk is made of, each of them followed by a newline in it.
LinesOfChunk(chunk) == SubSeq(SplitLines(chunk), 1, Len(SplitLines(chunk)) - 1)

\* Every chunk ends with a newline, and the lines of the chunks, in order,
\* are the first lines of the body: no boundary falls inside a line.
ChunksAreWholeLines ==
    LET parts    == chunkList[1]
        lines    == SplitLines(body)
        inChunks == Join([k \in 1..Len(parts) |-> LinesOfChunk(parts[k])])
    IN  /\ \A k \in 1..Len(parts) : parts[k] # <<>> /\ parts[k][Len(parts[k])] = NL
        /\ Len(inChunks) <= Len(lines)
        /\ inChunks = SubSeq(lines, 1, Len(inChunks))

LongChunkIsOneLine ==
    \A k \in 1..Len(chunkList[1]) :
        Len(chunkList[1][k]) > CHUNK_SIZE => Len(LinesOfChunk(chunkList[1][k])) = 1

LongLineIsItsOwnChunk ==
    \A j \in 1..Len(SplitLines(body)) :
        Len(SplitLines(body)[j]) > CHUNK_SIZE =>
            \E k \in 1..Len(chunkList[1]) : chunkList[1][k] = SplitLines(body)[j] \o <<NL>>

\* C24: for a body over the size bound, every chunk is a concatenation of
\* whole lines, a chunk longer than the bound is exactly one line, and a line
\* that alone exceeds the bound is emitted as a chunk of its own.
C24_ChunksAreWholeLines ==
    (chunkList # Null /\ Len(body) > CHUNK_SIZE) =>
        ChunksAreWholeLines /\ LongChunkIsOneLine /\ LongLineIsItsOwnChunk

\* ------------------------------------- claims: a placeholder the rewriter omits

\* The placeholders of the map that were sent in chunk k and are not in the
\* text returned for it.
OmittedIn(k) ==
    {i \in 1..Len(codeMap) :
        /\ \E j \in 1..Len(chunks[k]) : chunks[k][j] = codeMap[i][1]
        /\ \A j \in 1..Len(replies[k].content) : replies[k].content[j] # codeMap[i][1]}

Omitted == UNION {OmittedIn(k) : k \in 1..Len(replies)}

\* How often pat occurs in s as a contiguous run.
Occurrences(s, pat) ==
    Cardinality({q \in 1..(Len(s) - Len(pat) + 1) : SubSeq(s, q, q + Len(pat) - 1) = pat})

\* How often the originals of the placeholders that came back hold pat.
RECURSIVE OccurrencesInKept(_, _)
OccurrencesInKept(pat, i) ==
    IF i > Len(codeMap) THEN 0
    ELSE (IF i \in Omitted THEN 0 ELSE Occurrences(codeMap[i][2], pat))
         + OccurrencesInKept(pat, i + 1)

\* C25: when a reply lacks a placeholder that was sent, the reply is taken
\* as it is and the run goes on to the next chunk or to the end; at the end
\* no error is raised, the output is written and success is returned, and the
\* code span of the omitted placeholder is not in the output: its text occurs
\* there only as often as the frontmatter, which is copied, and the spans
\* that came back hold it.
C25_OmittedPlaceholderIsNoError ==
    /\ (Omitted # {} /\ rejections = 0) => pc \in {"awaiting", "returned"}
    /\ (Omitted # {} /\ pc = "returned") =>
           /\ outcome.kind = "returned" /\ outcome.error = ""
           /\ outcome.chunks = Len(chunks)
           /\ outputFile # Null
           /\ \A i \in Omitted :
                  Occurrences(outputFile[1], codeMap[i][2])
                      <= OccurrencesInKept(codeMap[i][2], 1)
                         + (IF frontmatter = Null THEN 0
                            ELSE Occurrences(frontmatter[1], codeMap[i][2]))

\* A run that returned although a code span was lost, one with a span that
\* came back beside it.
C25_Witness ==
    /\ pc = "returned"
    /\ outputFile # Null
    /\ \E i \in Omitted : Occurrences(outputFile[1], codeMap[i][2]) = 0
    /\ \E i \in 1..Len(codeMap) : i \notin Omitted

\* ================================================ checkGlossary: what it reports

\* Number of segments of the prose line of the documents checked here.
MaxSoundSegments == 2

\* A glossary whose term V forbids, in ja, a word of two letters, a word of
\* the letters of the placeholders, and the letter a.
TermV ==
    [canonical |-> "V", type |-> "noun",
     translations |-> [l \in {"ja"} |-> <<"a", "b">>],
     do_not_use |-> Some([l \in {"ja"} |-> <<<<"a", "a">>, <<"C", "O", "D", "E">>, <<"a">>>>])]

SoundGlossary ==
    Some([yaml |-> GlossaryValue(Some(<<"ja">>), Some(<<TermV>>)), comments |-> FALSE])

\* The documents: a frontmatter block or none, no fenced block, a prose line.
SoundShapes ==
    {[fm |-> fm, block |-> Null, segments |-> segments] :
        fm \in {Null, Some(<<"a">>)},
        segments \in UNION {[1..k -> Segments] : k \in 0..MaxSoundSegments}}

InitSoundness ==
    /\ docShape \in {Some(d) : d \in SoundShapes}
    /\ docFile = MarkdownFile(TextOf(docShape[1], FALSE))
    /\ glossaryFile = SoundGlossary
    /\ checkLang = "ja"
    /\ checkOutcome = Null
    /\ syncOutcome = Null /\ initForce = Null /\ initOutcome = Null
    /\ IdleFm /\ IdleCode /\ IdleChunk /\ IdleTf /\ IdleOv /\ IdleBatch /\ IdleOther

SpecSoundness == InitSoundness /\ [][Check]_vars

\* Which characters of a segment a reader sees: prose, and the text of a link.
VisibleMask(segments, i) ==
    [k \in 1..Len(segments[i].text) |->
        IF InBareUrl(segments, i) THEN FALSE
        ELSE IF segments[i].kind \in {"prose", "canonical", "space"} THEN TRUE
        ELSE IF segments[i].kind \in {"linktext", "link"} THEN k = 2
        ELSE FALSE]

VisibleOfLine(shape) ==
    Join([i \in 1..Len(shape.segments) |-> VisibleMask(shape.segments, i)])

\* word is a run of characters of the prose line that a reader sees, all of
\* them, next to one another in the document.
OccursVisibly(shape, word) ==
    \E q \in 1..(Len(ProseLine(shape, FALSE)) - Len(word) + 1) :
        \A k \in 1..Len(word) :
            /\ ProseLine(shape, FALSE)[q + k - 1] = word[k]
            /\ VisibleOfLine(shape)[q + k - 1]

\* C26: every issue names the prose line, and its forbidden variant is a
\* contiguous run of visible characters of that line in the document: none
\* comes from the text of a placeholder or from two fragments that the
\* removal of a URL or of a link target has joined.
C26_IssuesAreInTheVisibleText ==
    (checkOutcome # Null /\ docShape # Null /\ glossaryFile = SoundGlossary) =>
        \A k \in 1..Len(checkOutcome[1].issues) :
            /\ checkOutcome[1].issues[k].line = ProseLineNumber(docShape[1])
            /\ OccursVisibly(docShape[1], checkOutcome[1].issues[k].forbidden)

\* ======================================= syncGlossary run again, then the prompt

\* Number of terms of the glossary files synced more than once, and of runs.
MaxResyncTerms == 2
MaxSyncRuns == 2

\* The glossary files: terms with ja absent, a stub or translated, zh absent
\* or translated, with or without forbidden variants for ja.
ResyncTerms ==
    {[canonical |-> "T", type |-> "noun", translations |-> tr, do_not_use |-> dnu] :
        tr \in {t \in SyncTranslations : "zh" \in DOMAIN t => t["zh"] # <<>>},
        dnu \in {Null, Some([l \in {"ja"} |-> <<<<"x">>>>])}}

ResyncGlossaryFiles ==
    {Some([yaml |-> GlossaryValue(Some(languages), Some(terms)), comments |-> TRUE]) :
        languages \in SyncLanguages,
        terms \in UNION {[1..k -> ResyncTerms] : k \in 0..MaxResyncTerms}}

InitResync ==
    /\ glossaryFile \in ResyncGlossaryFiles \cup BrokenGlossaryFiles
    /\ docFile = Null /\ docShape = Null /\ checkLang = Null /\ checkOutcome = Null
    /\ syncOutcome = Null /\ initForce = Null /\ initOutcome = Null
    /\ IdleFm /\ IdleCode /\ IdleChunk /\ IdleTf /\ IdleOv /\ IdleBatch /\ IdleOther

\* One more run of syncGlossary on the glossary file as the runs before it
\* have left it.
SyncAgain ==
    /\ syncRuns < MaxSyncRuns
    /\ promptLines = Null
    /\ LET done == syncGlossary(glossaryFile)
       IN  /\ syncOutcome' = Some([error |-> done.error, result |-> done.result])
           /\ glossaryFile' = done.file
    /\ syncRuns' = syncRuns + 1
    /\ UNCHANGED <<docFile, docShape, checkLang, checkOutcome, initForce, initOutcome,
                   fmVars, codeVars, chunkVars, tfVars, ovVars, batchVars, pathVars,
                   promptVars>>

\* The glossary file is loaded and buildGlossaryPrompt is called on it for a
\* target language.
BuildPrompt(targetLang) ==
    /\ promptLines = Null
    /\ loadGlossary(glossaryFile).error = ""
    /\ loadGlossary(glossaryFile).glossary # Null
    /\ promptGlossary' = loadGlossary(glossaryFile).glossary
    /\ promptLang' = targetLang
    /\ promptLines' = Some(buildGlossaryPrompt(loadGlossary(glossaryFile).glossary[1],
                                               targetLang))
    /\ UNCHANGED <<glVars, syncRuns, fmVars, codeVars, chunkVars, tfVars, ovVars,
                   batchVars, pathVars>>

NextResync == SyncAgain \/ \E targetLang \in Languages : BuildPrompt(targetLang)

SpecResync == InitResync /\ [][NextResync]_vars

\* -------------------------------------------------- claims: syncGlossary again

\* C27: a run of syncGlossary on the file the run before it has left reports
\* no stub created and leaves the content of the file as it is.
C27_SyncIsIdempotent ==
    [][(syncRuns >= 1 /\ syncRuns' = syncRuns + 1 /\ syncOutcome[1].error = "") =>
           /\ syncOutcome'[1].error = ""
           /\ syncOutcome'[1].result[1].stubsCreated = 0
           /\ glossaryFile' = glossaryFile]_vars

\* ------------------------------------------ claims: the chunks of a valid input

\* C28: a run of translateFile that got past the validation of its input and
\* returned has sent at least one request and returns a chunk count of at
\* least 1.
C28_AtLeastOneChunk ==
    pc = "returned" => (Len(requests) >= 1 /\ outcome.chunks >= 1)

\* ------------------------------------------ claims: the prompt after the syncs

\* C29: whatever runs of syncGlossary came before, every term line of the
\* prompt prescribes a rendering that is not empty: the translation of the
\* term for the target language when one is set, its canonical otherwise,
\* also when the translation is a stub.
C29_RenderingIsNonEmpty ==
    promptLines # Null =>
        LET relevantTerms == SelectSeq(promptGlossary[1].terms[1],
                                       LAMBDA t : IsRelevant(t, promptLang))
        IN  \A k \in 1..Len(promptLines[1]) :
                promptLines[1][k].kind = "term" =>
                    /\ promptLines[1][k].rendering # <<>>
                    /\ promptLines[1][k].rendering
                           = RenderingOrCanonical(relevantTerms[k - 2], promptLang)

\* ----------------------------------------------- claims: what a sync leaves alone

\* Some term of the glossary lacks the translation of a declared language.
SomethingMissing(glossary) ==
    \E k \in 1..Len(glossary.terms[1]) : \E lang \in Declared(glossary) :
        LacksTranslation(glossary.terms[1][k], lang)

\* C30: a run of syncGlossary that throws leaves the file as it is; one that
\* returns leaves the version, the declared languages, the number and the
\* order of the terms, and of every term the canonical, the type, the
\* forbidden variants and every translation that is not empty; what it adds
\* or changes is an empty translation of a declared language that was
\* missing; and when nothing is missing the file is not written.
C30_SyncChangesOnlyMissingTranslations ==
    [][(syncRuns' = syncRuns + 1) =>
           IF syncOutcome'[1].error # "" THEN glossaryFile' = glossaryFile
           ELSE LET old == loadGlossary(glossaryFile).glossary[1]
                    new == loadGlossary(glossaryFile').glossary[1]
                IN  /\ new.kind = old.kind
                    /\ new.version = old.version
                    /\ new.languages = old.languages
                    /\ Len(new.terms[1]) = Len(old.terms[1])
                    /\ \A k \in 1..Len(old.terms[1]) :
                           LET was == old.terms[1][k]
                               is  == new.terms[1][k]
                           IN  /\ is.canonical = was.canonical
                               /\ is.type = was.type
                               /\ is.do_not_use = was.do_not_use
                               /\ DOMAIN was.translations \subseteq DOMAIN is.translations
                               /\ \A lang \in DOMAIN is.translations :
                                      \/ /\ lang \in DOMAIN was.translations
                                         /\ is.translations[lang] = was.translations[lang]
                                      \/ /\ lang \in Declared(old)
                                         /\ LacksTranslation(was, lang)
                                         /\ is.translations[lang] = <<>>
                    /\ ~SomethingMissing(old) => glossaryFile' = glossaryFile]_vars

\* A run has written two stubs into a file of two terms, the first of them
\* translated in zh and with forbidden variants for ja: the file is the
\* rewritten one, without its comments.
C30_Witness ==
    /\ syncRuns = 1
    /\ syncOutcome[1].error = ""
    /\ syncOutcome[1].result[1].stubsCreated = 2
    /\ glossaryFile[1].comments = FALSE
    /\ Len(Parse(glossaryFile[1]).terms[1]) = 2
    /\ Parse(glossaryFile[1]).terms[1][1].translations = [l \in {"ja", "zh"} |->
                                                             IF l = "zh" THEN <<"a", "b">> ELSE <<>>]
    /\ Parse(glossaryFile[1]).terms[1][1].do_not_use # Null
    /\ Parse(glossaryFile[1]).terms[1][2].translations = [l \in {"ja"} |-> <<>>]

\* A run on a file in which nothing is missing: the file keeps its comments.
C30_NotWritten ==
    /\ syncRuns = 1
    /\ syncOutcome[1].error = ""
    /\ syncOutcome[1].result[1].stubsCreated = 0
    /\ Len(Parse(glossaryFile[1]).terms[1]) = 2
    /\ glossaryFile[1].comments = TRUE

====
